---------------------------- MODULE Spec2Model ----------------------------
(***************************************************************************)
(* A model of the synthetic-record generator: the schema compiler and the  *)
(* execution engine of src/src/datagenerator.py, and the file writer of    *)
(* src/src/utils.py.                                                       *)
(*                                                                         *)
(* Text is modelled as a sequence of one-character strings, so that the    *)
(* regular expressions, int() and ast.literal_eval are computed on the     *)
(* characters as the code computes them.  A Python value is a record       *)
(* [ty, v]: its type name and its payload.                                 *)
(***************************************************************************)
EXTENDS Integers, Sequences, FiniteSets, TLC

(***************************************************************************)
(* Characters                                                              *)
(***************************************************************************)
Digits == {"0", "1", "2", "3", "4", "5", "6", "7", "8", "9"}

DigitVal(c) ==
    CASE c = "0" -> 0 [] c = "1" -> 1 [] c = "2" -> 2 [] c = "3" -> 3
      [] c = "4" -> 4 [] c = "5" -> 5 [] c = "6" -> 6 [] c = "7" -> 7
      [] c = "8" -> 8 [] c = "9" -> 9

\* The characters the regular expressions' \s and str.strip() take as blank.
Whitespace == {" ", "\t", "\n", "\r", "\f"}

Letters ==
    {"a", "b", "c", "d", "e", "f", "g", "h", "i", "j", "k", "l", "m", "n",
     "o", "p", "q", "r", "s", "t", "u", "v", "w", "x", "y", "z", "T", "F",
     "N", "P"}

Quotes == {"'", "\""}

RECURSIVE SkipWs(_, _)
\* The first position >= p of s that holds no blank.
SkipWs(s, p) ==
    IF p <= Len(s) /\ s[p] \in Whitespace THEN SkipWs(s, p + 1) ELSE p

RECURSIVE SkipDigits(_, _)
\* The first position >= p of s that holds no digit.
SkipDigits(s, p) ==
    IF p <= Len(s) /\ s[p] \in Digits THEN SkipDigits(s, p + 1) ELSE p

RECURSIVE SkipBack(_, _)
\* The last position <= p of s that holds no blank (0 when there is none).
SkipBack(s, p) ==
    IF p >= 1 /\ s[p] \in Whitespace THEN SkipBack(s, p - 1) ELSE p

\* s has the text t at position p.
HasAt(s, p, t) ==
    /\ p >= 1
    /\ p + Len(t) - 1 <= Len(s)
    /\ SubSeq(s, p, p + Len(t) - 1) = t

\* The regular expressions' $ (no MULTILINE flag): the end of the string, or
\* the place just before a newline that ends the string.
AtDollar(s, p) ==
    \/ p = Len(s) + 1
    \/ p = Len(s) /\ s[p] = "\n"

RECURSIVE DigitsValue(_, _, _)
\* The number the digits s[p..q] write.
DigitsValue(s, p, q) ==
    IF p > q THEN 0
    ELSE DigitsValue(s, p, q - 1) * 10 + DigitVal(s[q])

(***************************************************************************)
(* Python values                                                           *)
(***************************************************************************)
PyInt(n) == [ty |-> "int", v |-> n]
PyStr(s) == [ty |-> "str", v |-> s]
PyBool(b) == [ty |-> "bool", v |-> b]
PyNone == [ty |-> "NoneType", v |-> <<>>]
PyList(elts) == [ty |-> "list", v |-> elts]
PySet(elts) == [ty |-> "set", v |-> elts]
\* A dict, kept as the sequence of its <<key, value>> items in order.
PyDictOf(items) == [ty |-> "dict", v |-> items]
PyDict == PyDictOf(<<>>)
PyTuple(elts) == [ty |-> "tuple", v |-> elts]

\* isinstance(x, int): bool is a subclass of int.
IsInstanceInt(x) == x.ty \in {"int", "bool"}
\* isinstance(x, str)
IsInstanceStr(x) == x.ty = "str"
\* isinstance(x, item_type) for the two item types the compiler passes.
IsInstance(x, item_type) ==
    IF item_type = "int" THEN IsInstanceInt(x) ELSE IsInstanceStr(x)
\* hash(x) raises TypeError for the mutable containers.
Hashable(x) == x.ty \notin {"list", "set", "dict"}

(***************************************************************************)
(* re: the two patterns of DataGenerator, matched with Pattern.match       *)
(***************************************************************************)
\* One group (-?\d+) at position p.
SignedDigitsAt(s, p) ==
    LET d == IF p <= Len(s) /\ s[p] = "-" THEN p + 1 ELSE p
        e == SkipDigits(s, d)
    IN  [ok |-> e > d, first |-> p, next |-> e]

\* RAND_INT_PATTERN.match(val_source):
\* ^rand\(\s*(-?\d+)\s*,\s*(-?\d+)\s*\)$, with the two groups' texts.
RAND_INT_PATTERN(s) ==
    LET g1 == SignedDigitsAt(s, SkipWs(s, 6))
        c  == SkipWs(s, g1.next)
        g2 == SignedDigitsAt(s, SkipWs(s, c + 1))
        r  == SkipWs(s, g2.next)
    IN  IF /\ HasAt(s, 1, <<"r", "a", "n", "d", "(">>)
           /\ g1.ok
           /\ HasAt(s, c, <<",">>)
           /\ g2.ok
           /\ HasAt(s, r, <<")">>)
           /\ AtDollar(s, r + 1)
        THEN [matched |-> TRUE,
              groups |-> <<SubSeq(s, g1.first, g1.next - 1),
                           SubSeq(s, g2.first, g2.next - 1)>>]
        ELSE [matched |-> FALSE, groups |-> <<>>]

\* LIST_PATTERN.match(val_source): ^\[.*\]$, where . is any character but a
\* newline.
LIST_PATTERN(s) ==
    /\ Len(s) >= 2
    /\ s[1] = "["
    /\ \E j \in 2..Len(s) :
          /\ s[j] = "]"
          /\ AtDollar(s, j + 1)
          /\ \A k \in 2..(j - 1) : s[k] # "\n"

(***************************************************************************)
(* int(text): blanks stripped, an optional sign, digits with single        *)
(* underscores between them; anything else is a ValueError.                *)
(***************************************************************************)
IntOfText(s) ==
    LET a    == SkipWs(s, 1)
        b    == SkipBack(s, Len(s))
        t    == IF a <= b THEN SubSeq(s, a, b) ELSE <<>>
        d    == IF t # <<>> /\ t[1] \in {"+", "-"} THEN 2 ELSE 1
        body == SubSeq(t, d, Len(t))
        good == /\ body # <<>>
                /\ \A i \in 1..Len(body) :
                      \/ body[i] \in Digits
                      \/ /\ body[i] = "_"
                         /\ i > 1 /\ i < Len(body)
                         /\ body[i - 1] \in Digits
                         /\ body[i + 1] \in Digits
        digs == SelectSeq(body, LAMBDA ch : ch \in Digits)
        sign == IF d = 2 /\ t[1] = "-" THEN -1 ELSE 1
    IN  IF good THEN [exc |-> "none", val |-> sign * DigitsValue(digs, 1, Len(digs))]
        ELSE [exc |-> "ValueError", val |-> 0]

(***************************************************************************)
(* ast.literal_eval(text): ast.parse builds the tree (a SyntaxError when   *)
(* the text is no expression), then the tree is converted left to right    *)
(* (a ValueError at a node that is no literal, a TypeError when a set      *)
(* display holds an unhashable element).  The grammar covers the Python    *)
(* expressions written with digits, letters, quotes, blanks and            *)
(* - + , [ ] { }: numbers, strings, names, unary and binary + and -,       *)
(* list displays, set displays and the empty dict display.                 *)
(***************************************************************************)
ParseFail == [ok |-> FALSE, node |-> [n |-> "none"], pos |-> 0]
ParseOk(node, pos) == [ok |-> TRUE, node |-> node, pos |-> pos]

RECURSIVE SkipName(_, _)
\* The first position >= p of s that holds no letter and no digit.
SkipName(s, p) ==
    IF p <= Len(s) /\ s[p] \in (Letters \cup Digits)
    THEN SkipName(s, p + 1) ELSE p

RECURSIVE FindQuote(_, _, _)
\* The position of the quote q that closes a string opened before p, or 0
\* when the line ends first.
FindQuote(s, p, q) ==
    IF p > Len(s) \/ s[p] = "\n" THEN 0
    ELSE IF s[p] = q THEN p
    ELSE FindQuote(s, p + 1, q)

RECURSIVE ParseStrings(_, _, _)
\* One or more adjacent string literals from position p: their contents
\* are concatenated to acc.
ParseStrings(s, p, acc) ==
    LET e == FindQuote(s, p + 1, s[p])
        text == acc \o SubSeq(s, p + 1, e - 1)
        nxt == SkipWs(s, e + 1)
    IN  IF e = 0 THEN ParseFail
        ELSE IF nxt <= Len(s) /\ s[nxt] \in Quotes
        THEN ParseStrings(s, nxt, text)
        ELSE ParseOk([n |-> "Constant", value |-> PyStr(text)], e + 1)

\* A number literal at p: a run of digits, where only 0 may start with 0.
ParseNumber(s, p) ==
    LET e == SkipDigits(s, p)
        zeros == \A i \in p..(e - 1) : s[i] = "0"
    IN  IF s[p] = "0" /\ e > p + 1 /\ ~zeros THEN ParseFail
        ELSE ParseOk([n |-> "Constant",
                      value |-> PyInt(DigitsValue(s, p, e - 1))], e)

\* A name at p: the constants True, False and None, or an identifier.
ParseName(s, p) ==
    LET e == SkipName(s, p)
        id == SubSeq(s, p, e - 1)
    IN  IF id = <<"T", "r", "u", "e">>
        THEN ParseOk([n |-> "Constant", value |-> PyBool(TRUE)], e)
        ELSE IF id = <<"F", "a", "l", "s", "e">>
        THEN ParseOk([n |-> "Constant", value |-> PyBool(FALSE)], e)
        ELSE IF id = <<"N", "o", "n", "e">>
        THEN ParseOk([n |-> "Constant", value |-> PyNone], e)
        ELSE ParseOk([n |-> "Name", id |-> id], e)

RECURSIVE ParseExpr(_, _, _)
RECURSIVE ParseUnary(_, _)
RECURSIVE ParseAtom(_, _)
RECURSIVE ParseElems(_, _, _, _)
RECURSIVE ParseOperand(_, _)

\* After an element x of a display, at the first non-blank position b: a
\* comma goes on to the next element, the closing bracket ends the display.
ElemsAfter(s, b, x, close, acc) ==
    IF b > Len(s) THEN ParseFail
    ELSE IF s[b] = "," THEN ParseElems(s, b + 1, close, Append(acc, x))
    ELSE IF s[b] = close THEN ParseOk(Append(acc, x), b + 1)
    ELSE ParseFail

\* The parsed element x of a display, then what follows it.
ElemsNext(s, x, close, acc) ==
    IF x.ok THEN ElemsAfter(s, SkipWs(s, x.pos), x.node, close, acc)
    ELSE ParseFail

\* The elements of a display from the non-blank position a.
ElemsAt(s, a, close, acc) ==
    IF a > Len(s) THEN ParseFail
    ELSE IF s[a] = close THEN ParseOk(acc, a + 1)
    ELSE ElemsNext(s, ParseOperand(s, a), close, acc)

\* The elements of a display up to its closing bracket, comma separated,
\* with an optional trailing comma; p is after the opening bracket or a comma.
ParseElems(s, p, close, acc) == ElemsAt(s, SkipWs(s, p), close, acc)

\* A list display whose elements parsed as r.
ListDisplay(r) ==
    IF r.ok THEN ParseOk([n |-> "List", elts |-> r.node], r.pos) ELSE ParseFail

\* A display in braces whose elements parsed as r: {} is the empty dict.
BraceDisplay(r) ==
    IF ~r.ok THEN ParseFail
    ELSE IF r.node = <<>> THEN ParseOk([n |-> "Dict"], r.pos)
    ELSE ParseOk([n |-> "Set", elts |-> r.node], r.pos)

\* An atom at p (no blank before it).
ParseAtom(s, p) ==
    IF p > Len(s) THEN ParseFail
    ELSE IF s[p] \in Digits THEN ParseNumber(s, p)
    ELSE IF s[p] \in Quotes THEN ParseStrings(s, p, <<>>)
    ELSE IF s[p] \in Letters THEN ParseName(s, p)
    ELSE IF s[p] = "[" THEN ListDisplay(ParseElems(s, p + 1, "]", <<>>))
    ELSE IF s[p] = "{" THEN BraceDisplay(ParseElems(s, p + 1, "}", <<>>))
    ELSE ParseFail

\* The sign op applied to the parsed operand r.
Signed(op, r) ==
    IF r.ok THEN ParseOk([n |-> "UnaryOp", op |-> op, operand |-> r.node], r.pos)
    ELSE ParseFail

\* A unary expression at the non-blank position a: signs before an atom.
UnaryAt(s, a) ==
    IF a <= Len(s) /\ s[a] \in {"-", "+"}
    THEN Signed(s[a], ParseUnary(s, a + 1))
    ELSE ParseAtom(s, a)

\* A unary expression from p.
ParseUnary(s, p) == UnaryAt(s, SkipWs(s, p))

\* A binary + or - whose right operand parsed as r.
BinaryRest(s, r) ==
    IF r.ok THEN ParseExpr(s, r.pos, [n |-> "BinOp"]) ELSE ParseFail

\* The rest of an arithmetic expression at the non-blank position a.
ExprAt(s, p, a, left) ==
    IF a <= Len(s) /\ s[a] \in {"-", "+"}
    THEN BinaryRest(s, ParseUnary(s, a + 1))
    ELSE ParseOk(left, p)

\* The rest of an arithmetic expression whose left operand, ending before p,
\* is left: any further + or - makes it a BinOp.
ParseExpr(s, p, left) == ExprAt(s, p, SkipWs(s, p), left)

\* The arithmetic expression that starts with the unary expression u.
ExprFrom(s, u) ==
    IF u.ok THEN ParseExpr(s, u.pos, u.node) ELSE ParseFail

\* An arithmetic expression from p.
ParseOperand(s, p) == ExprFrom(s, ParseUnary(s, p))

Value(val) == [exc |-> "none", val |-> val]
Raise(exc) == [exc |-> exc, val |-> PyNone]

RECURSIVE Convert(_)
RECURSIVE ConvertElts(_, _, _, _)

\* The converted element r of a display, then the elements after it.
EltsNext(elts, i, acc, hashed, r) ==
    IF r.exc # "none" THEN r
    ELSE IF hashed /\ ~Hashable(r.val) THEN Raise("TypeError")
    ELSE ConvertElts(elts, i + 1, Append(acc, r.val), hashed)

\* The elements elts[i..] of a display converted in order after acc; the
\* first failure ends the conversion, and an element of a set display is
\* hashed as soon as it is converted.
ConvertElts(elts, i, acc, hashed) ==
    IF i > Len(elts) THEN Value(acc)
    ELSE EltsNext(elts, i, acc, hashed, Convert(elts[i]))

\* The container of type ty built from the converted elements r.
Container(ty, r) ==
    IF r.exc = "none" THEN Value([ty |-> ty, v |-> r.val]) ELSE r

\* literal_eval's _convert of one node.
Convert(node) ==
    CASE node.n = "Constant" -> Value(node.value)
      [] node.n = "List" ->
            Container("list", ConvertElts(node.elts, 1, <<>>, FALSE))
      [] node.n = "Tuple" ->
            Container("tuple", ConvertElts(node.elts, 1, <<>>, FALSE))
      [] node.n = "Set" ->
            Container("set", ConvertElts(node.elts, 1, <<>>, TRUE))
      [] node.n = "Dict" -> Value(PyDict)
      [] node.n = "UnaryOp" ->
            IF node.operand.n = "Constant" /\ node.operand.value.ty = "int"
            THEN Value(PyInt((IF node.op = "-" THEN -1 ELSE 1)
                               * node.operand.value.v))
            ELSE Raise("ValueError")
      [] OTHER -> Raise("ValueError")

RECURSIVE LStrip(_)
\* str.lstrip(" \t")
LStrip(s) ==
    IF s # <<>> /\ s[1] \in {" ", "\t"} THEN LStrip(Tail(s)) ELSE s

RECURSIVE ParseTop(_, _, _)

\* After the top-level expression e, at the first non-blank position b: the
\* end of the text, or a comma that makes the text a tuple.
TopAfter(s, b, e, acc) ==
    IF b = Len(s) + 1
    THEN ParseOk(IF acc = <<>> THEN e
                 ELSE [n |-> "Tuple", elts |-> Append(acc, e)], b)
    ELSE IF s[b] = "," THEN ParseTop(s, b + 1, Append(acc, e))
    ELSE ParseFail

\* The parsed top-level expression e, then what follows it.
TopNext(s, e, acc) ==
    IF e.ok THEN TopAfter(s, SkipWs(s, e.pos), e.node, acc) ELSE ParseFail

\* The whole text as an expression, or as a tuple of expressions when commas
\* separate them at the top level; p is at the start or after a comma.
ParseTop(s, p, acc) ==
    IF acc # <<>> /\ SkipWs(s, p) = Len(s) + 1
    THEN ParseOk([n |-> "Tuple", elts |-> acc], p)
    ELSE TopNext(s, ParseOperand(s, p), acc)

\* The value of the tree ast.parse built, or the SyntaxError it raised.
Evaluated(e) == IF e.ok THEN Convert(e.node) ELSE Raise("SyntaxError")

\* ast.literal_eval(text): the value, or the exception it raises.
literal_eval(text) == Evaluated(ParseTop(LStrip(text), 1, <<>>))

(***************************************************************************)
(* DataGenerator: the schema compiler                                      *)
(***************************************************************************)
\* functools.partial(self.<fn>, *args), or the bound method self.<fn> when
\* args is empty: a generation rule.
partial(fn, args) == [fn |-> fn, args |-> args]
\* The None a helper returns for a source it rejects.
None == partial("None", <<>>)

possible_types ==
    {<<"t", "i", "m", "e", "s", "t", "a", "m", "p">>, <<"s", "t", "r">>,
     <<"i", "n", "t">>}

\* One logging call of the compiler about the field key.
LogRecord(level, key) == [level |-> level, key |-> key]

\* dict[key] = value on a dict kept as its sequence of <<key, value>> items.
DictSet(d, key, value) ==
    IF \E i \in 1..Len(d) : d[i][1] = key
    THEN [i \in 1..Len(d) |-> IF d[i][1] = key THEN <<key, value>> ELSE d[i]]
    ELSE Append(d, <<key, value>>)

\* dict.keys()
DictKeys(d) == {d[i][1] : i \in 1..Len(d)}

\* str.split(":", 1) of a text that holds a colon.
SplitColon(s) ==
    LET c == CHOOSE i \in 1..Len(s) :
                 s[i] = ":" /\ \A j \in 1..(i - 1) : s[j] # ":"
    IN  <<SubSeq(s, 1, c - 1), SubSeq(s, c + 1, Len(s))>>

\* What a helper gives back: a rule (func), None after logging an error,
\* or an exception it does not catch.
Compiled(func) == [exc |-> "none", func |-> func, log |-> <<>>]
Rejected(key) ==
    [exc |-> "none", func |-> None, log |-> <<LogRecord("error", key)>>]
Uncaught(exc) == [exc |-> exc, func |-> None, log |-> <<>>]

\* The try block of _compile_list_source, literal_eval having given r.
ListSource(key, r, item_type) ==
    IF r.exc = "none"
    THEN IF /\ r.val.ty = "list"
            /\ \A i \in 1..Len(r.val.v) : IsInstance(r.val.v[i], item_type)
         THEN Compiled(partial("_generate_from_list", <<r.val>>))
         ELSE Rejected(key)
    ELSE IF r.exc \in {"ValueError", "SyntaxError"} THEN Rejected(key)
    ELSE Uncaught(r.exc)

_compile_list_source(key, val_source, item_type) ==
    ListSource(key, literal_eval(val_source), item_type)

\* The try block of _compile_standalone_source, int(val_source) having
\* given r.
StandaloneSource(key, r) ==
    IF r.exc = "none"
    THEN Compiled(partial("_generate_static_value", <<PyInt(r.val)>>))
    ELSE Rejected(key)

\* Called with val_type int only.
_compile_standalone_source(key, val_source) ==
    StandaloneSource(key, IntOfText(val_source))

Min(a, b) == IF a <= b THEN a ELSE b
Max(a, b) == IF a <= b THEN b ELSE a

\* RandIntRule with the bounds passed as written, not ordered.
RandIntRuleAsWritten(from_val, to_val) ==
    partial("_generate_rand_int", <<PyInt(from_val), PyInt(to_val)>>)

\* partial(self._generate_rand_int, min(from_val, to_val), max(from_val, to_val))
RandIntRule(from_val, to_val) ==
    partial("_generate_rand_int",
            <<PyInt(Min(from_val, to_val)), PyInt(Max(from_val, to_val))>>)

\* The branch of the loop body for val_type int.
CompileIntWith(key, val_source, rand_int_match) ==
    IF val_source = <<>> THEN Compiled(partial("_generate_none", <<>>))
    ELSE IF val_source = <<"r", "a", "n", "d">>
    THEN Compiled(partial("_generate_rand_int", <<PyInt(0), PyInt(10000)>>))
    ELSE IF rand_int_match.matched
    THEN Compiled(RandIntRule(IntOfText(rand_int_match.groups[1]).val,
                              IntOfText(rand_int_match.groups[2]).val))
    ELSE IF LIST_PATTERN(val_source)
    THEN _compile_list_source(key, val_source, "int")
    ELSE _compile_standalone_source(key, val_source)

CompileInt(key, val_source) ==
    CompileIntWith(key, val_source, RAND_INT_PATTERN(val_source))

\* The branch of the loop body for val_type str.
CompileStr(key, val_source) ==
    IF val_source = <<>> THEN Compiled(partial("_generate_empty_string", <<>>))
    ELSE IF val_source = <<"r", "a", "n", "d">>
    THEN Compiled(partial("_generate_uuid", <<>>))
    ELSE IF RAND_INT_PATTERN(val_source).matched THEN Rejected(key)
    ELSE IF LIST_PATTERN(val_source)
    THEN _compile_list_source(key, val_source, "str")
    ELSE Compiled(partial("_generate_static_value", <<PyStr(val_source)>>))

\* The branch of the loop body for val_type timestamp.
CompileTimestamp(key, val_source) ==
    [exc |-> "none", func |-> partial("_generate_timestamp", <<>>),
     log |-> IF val_source # <<>> THEN <<LogRecord("warning", key)>> ELSE <<>>]

\* The loop body after the split into val_type and val_source.
CompileTyped(key, val_type, val_source) ==
    IF val_type \notin possible_types THEN Rejected(key)
    ELSE IF val_type = <<"i", "n", "t">> THEN CompileInt(key, val_source)
    ELSE IF val_type = <<"s", "t", "r">> THEN CompileStr(key, val_source)
    ELSE CompileTimestamp(key, val_source)

\* One pass of the loop body: the field's rule, None, or an exception.
CompileField(key, value) ==
    IF key.ty # "str" \/ value.ty # "str"
       \/ \A i \in 1..Len(value.v) : value.v[i] # ":"
    THEN Rejected(key)
    ELSE CompileTyped(key, SplitColon(value.v)[1], SplitColon(value.v)[2])

\* What _parse_and_compile_schema leaves: what it returns (ret) or raises
\* (exc), the plan, the log, and how many fields' loop bodies ran.
Outcome(ret, exc, generation_plan, log, validated) ==
    [ret |-> ret, exc |-> exc, generation_plan |-> generation_plan,
     log |-> log, validated |-> validated]

RECURSIVE CompileLoop(_, _, _, _)

\* The end of the i-th pass of the for loop, the loop body having given c:
\* an exception leaves the method, None returns False, a rule enters the
\* plan and the loop goes on.
CompileStep(items, i, generation_plan, log, c) ==
    IF c.exc # "none"
    THEN Outcome(FALSE, c.exc, generation_plan, log \o c.log, i)
    ELSE IF c.func = None
    THEN Outcome(FALSE, "none", generation_plan, log \o c.log, i)
    ELSE CompileLoop(items, i + 1,
                     DictSet(generation_plan, items[i][1], c.func),
                     log \o c.log)

\* The for loop over data_schema.items() from its i-th item on.
CompileLoop(items, i, generation_plan, log) ==
    IF i > Len(items) THEN Outcome(TRUE, "none", generation_plan, log, i - 1)
    ELSE CompileStep(items, i, generation_plan, log,
                     CompileField(items[i][1], items[i][2]))

_parse_and_compile_schema(data_schema) ==
    IF data_schema.ty # "dict"
    THEN Outcome(FALSE, "none", <<>>, <<LogRecord("error", PyNone)>>, 0)
    ELSE CompileLoop(data_schema.v, 1, <<>>, <<>>)

(***************************************************************************)
(* DataGenerator: evaluation of the rules                                  *)
(***************************************************************************)
\* int(time.time()): the clock's second when the rule runs.
Clock == {1793745080, 1793745081}

\* str(uuid.uuid4()): two of the identifiers, cut to their first group.
Uuids == {<<"7", "c", "9", "e", "6", "6", "7", "9">>,
          <<"1", "b", "4", "d", "b", "7", "e", "b">>}

\* random.randint(a, b): randrange(a, b + 1) raises ValueError on an empty
\* range.
randint(a, b) ==
    IF a > b THEN {Raise("ValueError")} ELSE {Value(PyInt(n)) : n \in a..b}

\* random.choice(seq): seq[randbelow(len(seq))] raises IndexError on an
\* empty sequence.
choice(seq) ==
    IF seq = <<>> THEN {Raise("IndexError")}
    ELSE {Value(seq[i]) : i \in 1..Len(seq)}

\* func(): everything one call of the rule can give.
Call(func) ==
    CASE func.fn = "_generate_timestamp" -> {Value(PyInt(c)) : c \in Clock}
      [] func.fn = "_generate_rand_int" ->
            randint(func.args[1].v, func.args[2].v)
      [] func.fn = "_generate_from_list" -> choice(func.args[1].v)
      [] func.fn = "_generate_uuid" -> {Value(PyStr(u)) : u \in Uuids}
      [] func.fn = "_generate_static_value" -> {Value(func.args[1])}
      [] func.fn = "_generate_none" -> {Value(PyNone)}
      [] func.fn = "_generate_empty_string" -> {Value(PyStr(<<>>))}

RECURSIVE OneFileFrom(_, _, _)
\* The dict comprehension over generation_plan.items() from its i-th item
\* on, after rec: each record it can build, or the exception of the first
\* rule that raises, with the key of that rule.
OneFileFrom(plan, i, rec) ==
    IF i > Len(plan) THEN {[exc |-> "none", val |-> PyDictOf(rec), at |-> 0]}
    ELSE UNION {IF o.exc # "none"
                THEN {[exc |-> o.exc, val |-> PyNone, at |-> i]}
                ELSE OneFileFrom(plan, i + 1, DictSet(rec, plan[i][1], o.val))
                : o \in Call(plan[i][2])}

_generate_one_file(plan) == OneFileFrom(plan, 1, <<>>)

(***************************************************************************)
(* json.dumps and json.loads on the values a record holds                  *)
(***************************************************************************)
DigitText == <<"0", "1", "2", "3", "4", "5", "6", "7", "8", "9">>

RECURSIVE NatText(_)
\* The decimal digits of the natural number n.
NatText(n) ==
    IF n < 10 THEN <<DigitText[n + 1]>>
    ELSE NatText(n \div 10) \o <<DigitText[(n % 10) + 1]>>

\* str(n) of an integer, as an f-string and json.dumps write it.
IntText(n) == IF n < 0 THEN <<"-">> \o NatText(0 - n) ELSE NatText(n)

\* json.dumps of one character of a string: the quote, the backslash and the
\* control characters are escaped.
EscapeChar(c) ==
    CASE c = "\"" -> <<"\\", "\"">>
      [] c = "\\" -> <<"\\", "\\">>
      [] c = "\n" -> <<"\\", "n">>
      [] c = "\r" -> <<"\\", "r">>
      [] c = "\t" -> <<"\\", "t">>
      [] c = "\f" -> <<"\\", "f">>
      [] OTHER -> <<c>>

RECURSIVE EscapeText(_)
EscapeText(s) ==
    IF s = <<>> THEN <<>> ELSE EscapeChar(Head(s)) \o EscapeText(Tail(s))

\* json.dumps of a str
EncodeStr(s) == <<"\"">> \o EscapeText(s) \o <<"\"">>

\* json.dumps of a value a rule can yield: a str, an int, a bool or None.
EncodeValue(x) ==
    CASE x.ty = "str" -> EncodeStr(x.v)
      [] x.ty = "int" -> IntText(x.v)
      [] x.ty = "bool" ->
            IF x.v THEN <<"t", "r", "u", "e">> ELSE <<"f", "a", "l", "s", "e">>
      [] x.ty = "NoneType" -> <<"n", "u", "l", "l">>

RECURSIVE EncodeItems(_, _)
\* The items of a dict from the i-th on, separated by ", ", each as
\* "key": value.
EncodeItems(items, i) ==
    IF i > Len(items) THEN <<>>
    ELSE (IF i > 1 THEN <<",", " ">> ELSE <<>>)
         \o EncodeStr(items[i][1].v) \o <<":", " ">>
         \o EncodeValue(items[i][2]) \o EncodeItems(items, i + 1)

\* json.dumps(obj) with the default separators.
json_dumps(obj) ==
    IF obj.ty = "dict" THEN <<"{">> \o EncodeItems(obj.v, 1) \o <<"}">>
    ELSE EncodeValue(obj)

\* What a scan of JSON text gives: the value and the position after it, or
\* a JSONDecodeError.
JFail == [ok |-> FALSE, val |-> PyNone, next |-> 0]
JOk(val, next) == [ok |-> TRUE, val |-> val, next |-> next]

\* The blanks JSON allows between tokens.
JsonWs == {" ", "\t", "\n", "\r"}

RECURSIVE SkipJsonWs(_, _)
SkipJsonWs(s, p) ==
    IF p <= Len(s) /\ s[p] \in JsonWs THEN SkipJsonWs(s, p + 1) ELSE p

\* The character an escape \c stands for (\uXXXX is not modelled: json.dumps
\* writes none for the characters of the model).
Unescaped(c) ==
    CASE c = "\"" -> "\""
      [] c = "\\" -> "\\"
      [] c = "/" -> "/"
      [] c = "n" -> "\n"
      [] c = "r" -> "\r"
      [] c = "t" -> "\t"
      [] c = "f" -> "\f"

RECURSIVE ScanString(_, _, _)
\* The string whose opening quote is just before position p, acc its
\* characters so far: up to the closing quote, escapes decoded; a control
\* character or an unknown escape is an error.
ScanString(s, p, acc) ==
    IF p > Len(s) THEN JFail
    ELSE IF s[p] = "\"" THEN JOk(PyStr(acc), p + 1)
    ELSE IF s[p] = "\\"
    THEN IF p + 1 <= Len(s) /\ s[p + 1] \in {"\"", "\\", "/", "n", "r", "t", "f"}
         THEN ScanString(s, p + 2, Append(acc, Unescaped(s[p + 1])))
         ELSE JFail
    ELSE IF s[p] \in {"\n", "\r", "\t", "\f"} THEN JFail
    ELSE ScanString(s, p + 1, Append(acc, s[p]))

\* The integer whose digits are s[d..e-1], negative when neg: a number with
\* a leading zero ends after the zero.
ScanDigits(s, d, e, neg) ==
    IF e = d THEN JFail
    ELSE IF s[d] = "0" THEN JOk(PyInt(0), d + 1)
    ELSE JOk(PyInt(IF neg THEN 0 - DigitsValue(s, d, e - 1)
                   ELSE DigitsValue(s, d, e - 1)), e)

\* The number at position p: -?(0|[1-9][0-9]*).
ScanNumber(s, p) ==
    IF p <= Len(s) /\ s[p] = "-"
    THEN ScanDigits(s, p + 1, SkipDigits(s, p + 1), TRUE)
    ELSE ScanDigits(s, p, SkipDigits(s, p), FALSE)

\* The scalar at position p: a string, a number, true, false or null.
ScanScalar(s, p) ==
    IF p > Len(s) THEN JFail
    ELSE IF s[p] = "\"" THEN ScanString(s, p + 1, <<>>)
    ELSE IF HasAt(s, p, <<"t", "r", "u", "e">>) THEN JOk(PyBool(TRUE), p + 4)
    ELSE IF HasAt(s, p, <<"f", "a", "l", "s", "e">>) THEN JOk(PyBool(FALSE), p + 5)
    ELSE IF HasAt(s, p, <<"n", "u", "l", "l">>) THEN JOk(PyNone, p + 4)
    ELSE ScanNumber(s, p)

RECURSIVE ScanMembers(_, _, _)
\* After a member of an object: } ends it, a comma brings the next member.
AfterMember(s, items, p) ==
    IF p > Len(s) THEN JFail
    ELSE IF s[p] = "}" THEN JOk(PyDictOf(items), p + 1)
    ELSE IF s[p] = "," THEN ScanMembers(s, SkipJsonWs(s, p + 1), items)
    ELSE JFail

\* The member's value r was scanned: it is set under key.
AfterValue(s, items, key, r) ==
    IF ~r.ok THEN JFail
    ELSE AfterMember(s, DictSet(items, key, r.val), SkipJsonWs(s, r.next))

\* After the member's key, at position p: a colon, then the value.
AfterColon(s, items, key, p) ==
    IF p > Len(s) \/ s[p] # ":" THEN JFail
    ELSE AfterValue(s, items, key, ScanScalar(s, SkipJsonWs(s, p + 1)))

\* The member's key k was scanned.
AfterKey(s, items, k) ==
    IF ~k.ok THEN JFail
    ELSE AfterColon(s, items, k.val, SkipJsonWs(s, k.next))

\* The members of an object from position p on, after items: each begins
\* with its key, a string.
ScanMembers(s, p, items) ==
    IF p > Len(s) \/ s[p] # "\"" THEN JFail
    ELSE AfterKey(s, items, ScanString(s, p + 1, <<>>))

\* The value at position p: an object of scalars, or a scalar (a record
\* holds no array and no object).
ScanValue(s, p) ==
    IF p <= Len(s) /\ s[p] = "{"
    THEN IF HasAt(s, SkipJsonWs(s, p + 1), <<"}">>)
         THEN JOk(PyDict, SkipJsonWs(s, p + 1) + 1)
         ELSE ScanMembers(s, SkipJsonWs(s, p + 1), <<>>)
    ELSE ScanScalar(s, p)

\* The scanned document r is the whole text but for blanks.
WholeText(s, r) ==
    IF r.ok /\ SkipJsonWs(s, r.next) = Len(s) + 1
    THEN [exc |-> "none", val |-> r.val]
    ELSE [exc |-> "JSONDecodeError", val |-> PyNone]

\* json.loads(s)
json_loads(s) == WholeText(s, ScanValue(s, SkipJsonWs(s, 1)))

(***************************************************************************)
(* _generate_filenames and save_results_to_files                           *)
(***************************************************************************)
\* The most records handed to save_results_to_files.
MaxRecords == 3
\* The largest file_count.
MaxFiles == 3
\* The largest data_lines.
MaxLines == 2

\* The records that are saved: integers, strings with characters json
\* escapes, None and a bool.
SaveRecords ==
    {PyDictOf(<< <<PyStr(<<"a">>), PyInt(1)>>,
                 <<PyStr(<<"b">>), PyStr(<<"x", "\"", "y", "\\", "z", "\n">>)>> >>),
     PyDictOf(<< <<PyStr(<<"a">>), PyInt(0 - 20)>>,
                 <<PyStr(<<"b">>), PyStr(<<>>)>> >>),
     PyDictOf(<< <<PyStr(<<"a">>), PyNone>>,
                 <<PyStr(<<"b">>), PyBool(TRUE)>> >>)}

\* The lists of up to MaxRecords records.
SaveInputs == UNION {[1..n -> SaveRecords] : n \in 0..MaxRecords}

\* The prefix strategies, and a name that is none of them.
Prefixes == {"count", "random", "uuid", "date"}

\* random.randint(10000, 99999): the two ends of the range stand for it.
RandomSuffixes == {10000, 99999}

\* f"{base_name}{suffix}.jsonl"
JsonlName(base_name, suffix) ==
    base_name \o suffix \o <<".", "j", "s", "o", "n", "l">>

\* What next() on the generator gives: a filename, or StopIteration.
Yield(name) == [stop |-> FALSE, name |-> name]
StopIteration == [stop |-> TRUE, name |-> <<>>]

\* A generator that numbers the names of the prefix count from zero.
FilenamesFromZero(base_name, prefix, count, k) ==
    IF count <= 1
    THEN IF k = 0 THEN {Yield(JsonlName(base_name, <<>>))} ELSE {StopIteration}
    ELSE IF k >= count THEN {StopIteration}
    ELSE CASE prefix = "count" ->
                  {Yield(JsonlName(base_name, <<"_">> \o IntText(k)))}
           [] prefix = "random" ->
                  {Yield(JsonlName(base_name, <<"_">> \o IntText(n))) :
                      n \in RandomSuffixes}
           [] prefix = "uuid" ->
                  {Yield(JsonlName(base_name, <<"_">> \o u)) : u \in Uuids}
           [] OTHER -> {StopIteration}

\* next() on _generate_filenames(base_name, prefix, count) after it has
\* yielded k names.  count <= 1 yields the plain name once; otherwise turn
\* k + 1 of the loop yields a name by the prefix rule, and an unknown prefix
\* yields nothing at all.
_generate_filenames(base_name, prefix, count, k) ==
    IF count <= 1
    THEN IF k = 0 THEN {Yield(JsonlName(base_name, <<>>))} ELSE {StopIteration}
    ELSE IF k >= count THEN {StopIteration}
    ELSE CASE prefix = "count" ->
                  {Yield(JsonlName(base_name, <<"_">> \o IntText(k + 1)))}
           [] prefix = "random" ->
                  {Yield(JsonlName(base_name, <<"_">> \o IntText(n))) :
                      n \in RandomSuffixes}
           [] prefix = "uuid" ->
                  {Yield(JsonlName(base_name, <<"_">> \o u)) : u \in Uuids}
           [] OTHER -> {StopIteration}

\* A slice that runs to the end of the list: the last file takes the rest.
SliceToEnd(seq, i, file_end) == SubSeq(seq, i + 1, Len(seq))

\* results[i:file_end]
Slice(seq, i, file_end) == SubSeq(seq, i + 1, Min(file_end, Len(seq)))

RECURSIVE ChunkText(_, _)
\* What the loop `f.write(json.dumps(item) + "\n")` writes for the first n
\* items of chunk.
ChunkText(chunk, n) ==
    IF n = 0 THEN <<>>
    ELSE ChunkText(chunk, n - 1) \o json_dumps(chunk[n]) \o <<"\n">>

\* The directory after the file name holds text: open(..., "w") replaces
\* what a file of that name held.
WriteFile(dir, name, text) ==
    {f \in dir : f.name # name} \cup {[name |-> name, text |-> text]}

\* How writing one file can go: it is written whole; open() raises OSError
\* and the directory is as it was; a write raises OSError and the file holds
\* the first j lines only.
WriteOutcomes(dir, name, chunk) ==
    {[ok |-> TRUE, dir |-> WriteFile(dir, name, ChunkText(chunk, Len(chunk)))],
     [ok |-> FALSE, dir |-> dir]}
    \cup {[ok |-> FALSE, dir |-> WriteFile(dir, name, ChunkText(chunk, j))] :
             j \in 0..(Len(chunk) - 1)}

(***************************************************************************)
(* validate_save_path, load_data_schema and handle_clear_path               *)
(***************************************************************************)
\* The largest file_count main is run with.
MaxMainFiles == 2

\* What a path_to_save_files can be: not given, a path that does not exist,
\* a file, a directory.
SavePaths == {"", "missing", "file", "dir"}

\* validate_save_path(path_str): the directory, or None for a path that is
\* empty, does not exist or is no directory.
validate_save_path(path_str) == IF path_str = "dir" THEN "dir" ELSE "none"

\* The files a schema can be read from: a schema, an empty object, and a
\* text that is no JSON.
SchemaFiles ==
    {[name |-> <<"s", ".", "j", "s", "o", "n">>, text |-> <<"{", "\"", "a", "\"", ":", " ",
            "\"", "i", "n", "t", ":", "5", "\"", "}", "\n">>],
     [name |-> <<"e", ".", "j", "s", "o", "n">>, text |-> <<"{", "}">>],
     [name |-> <<"b", ".", "j", "s", "o", "n">>, text |-> <<"a", ":", " ", "i", "n", "t">>]}

\* The values of --data_schema main is run with: none, the three paths, a
\* path of no file, and inline JSON: a schema that compiles, one whose choice
\* list is empty, one rejected at its second field, one the compiler raises
\* on, an empty object, a number, zero.
SchemaArgs ==
    {<<>>, <<"s", ".", "j", "s", "o", "n">>, <<"e", ".", "j", "s", "o", "n">>, <<"b", ".", "j",
            "s", "o", "n">>, <<"n", "o", ".", "j", "s", "o", "n">>,
     <<"{", "\"", "a", "\"", ":", " ", "\"", "i", "n", "t", ":", "5", "\"", "}">>,
     <<"{", "\"", "a", "\"", ":", " ", "\"", "i", "n", "t", ":", "[", "]", "\"", "}">>,
     <<"{", "\"", "a", "\"", ":", " ", "\"", "i", "n", "t", ":", "5", "\"", ",", " ", "\"",
             "b", "\"", ":", " ", "\"", "s", "t", "r", ":", "r", "a", "n", "d", "(", "1", ",",
                     "2", ")", "\"", "}">>,
     <<"{", "\"", "a", "\"", ":", " ", "\"", "i", "n", "t", ":", "[", "{", "[", "]", "}", "]",
             "\"", "}">>,
     <<"{", "}">>, <<"5">>, <<"0">>}

\* read_from_path(path): json.load of the file; None when there is no such
\* file or its text is no JSON.
read_from_path(path) ==
    IF \E f \in SchemaFiles : f.name = path
    THEN (IF json_loads((CHOOSE f \in SchemaFiles : f.name = path).text).exc = "none"
          THEN json_loads((CHOOSE f \in SchemaFiles : f.name = path).text).val
          ELSE PyNone)
    ELSE PyNone

\* read_from_string(schema_string): json.loads, None on JSONDecodeError.
read_from_string(schema_string) ==
    IF json_loads(schema_string).exc = "none"
    THEN json_loads(schema_string).val ELSE PyNone

\* load_data_schema(input_str): the file's JSON if the path gives one, else
\* the string's JSON, else None.
load_data_schema(input_str) ==
    IF input_str = <<>> THEN PyNone
    ELSE IF read_from_path(input_str) # PyNone THEN read_from_path(input_str)
    ELSE read_from_string(input_str)

\* bool(x) is False: None, False, zero, the empty string and the empty
\* containers.
Falsy(x) ==
    \/ x.ty = "NoneType"
    \/ x.ty = "bool" /\ ~x.v
    \/ x.ty = "int" /\ x.v = 0
    \/ x.ty \in {"str", "dict", "list"} /\ x.v = <<>>

\* The name matches the pattern f"{file_name}*.json" of save_path.glob.
GlobMatches(name, base_name) ==
    /\ Len(name) >= Len(base_name) + 5
    /\ SubSeq(name, 1, Len(base_name)) = base_name
    /\ SubSeq(name, Len(name) - 4, Len(name)) = <<".", "j", "s", "o", "n">>

\* handle_clear_path(save_path, file_name): every file the pattern matches
\* is unlinked; an unlink that raises OSError is logged and the file stays.
\* Each directory that can be left.
handle_clear_path(dir, base_name) ==
    {{f \in dir : ~GlobMatches(f.name, base_name)} \cup kept :
        kept \in SUBSET {f \in dir : GlobMatches(f.name, base_name)}}

\* A directory an earlier run with the base name out has written to: its
\* output files of one file and of several, beside a .json file with the
\* base name and two files of other names.
DirBefore ==
    {[name |-> <<"o", "u", "t", ".", "j", "s", "o", "n", "l">>, text |-> <<"{", "\"", "a",
            "\"", ":", " ", "1", "}", "\n">>],
     [name |-> <<"o", "u", "t", "_", "1", ".", "j", "s", "o", "n", "l">>, text |-> <<"{", "\"",
             "a", "\"", ":", " ", "1", "}", "\n">>],
     [name |-> <<"o", "u", "t", "_", "o", "l", "d", ".", "j", "s", "o", "n">>, text |-> <<"{",
             "\"", "a", "\"", ":", " ", "1", "}", "\n">>],
     [name |-> <<"n", "o", "t", "e", "s", ".", "j", "s", "o", "n">>, text |-> <<"{", "\"", "a",
             "\"", ":", " ", "1", "}", "\n">>],
     [name |-> <<"o", "t", "h", "e", "r", ".", "j", "s", "o", "n", "l">>, text |-> <<"{", "\"",
             "a", "\"", ":", " ", "1", "}", "\n">>]}

(***************************************************************************)
(* The schemas the model is run on                                         *)
(***************************************************************************)
\* The most fields a generated schema has.
MaxFields == 3

\* The field names, in the order the generated schemas use them.
FieldNames == <<PyStr(<<"a">>), PyStr(<<"b">>), PyStr(<<"c">>), PyStr(<<"d">>),
                PyStr(<<"e">>)>>

\* Specification strings, each the only field of a schema.
SingleValues ==
    {<<"s", "t", "r", ":", "r", "a", "n", "d">>,
     <<"s", "t", "r", ":", "[", "'", "a", "c", "t", "i", "v", "e", "'", ",", " ", "'", "i", "n", "a", "c", "t", "i", "v", "e", "'", "]">>,
     <<"s", "t", "r", ":", "P", "o", "l", "a", "n", "d">>,
     <<"s", "t", "r", ":">>,
     <<"i", "n", "t", ":", "r", "a", "n", "d", "(", "1", ",", " ", "1", "0", "0", ")">>,
     <<"i", "n", "t", ":", "r", "a", "n", "d", "(", "-", "5", "0", ",", " ", "-", "1", "0", ")">>,
     <<"i", "n", "t", ":", "4", "2">>,
     <<"i", "n", "t", ":", "[", "1", ",", " ", "2", ",", " ", "3", "]">>,
     <<"i", "n", "t", ":">>,
     <<"t", "i", "m", "e", "s", "t", "a", "m", "p", ":">>,
     <<"s", "t", "r", "i", "n", "g", ":", "r", "a", "n", "d">>,
     <<"i", "n", "t", ":", "r", "a", "n", "d", "(", "1", "0", "-", "2", "0", ")">>,
     <<"s", "t", "r", ":", "r", "a", "n", "d", "(", "1", ",", "1", "0", ")">>,
     <<"i", "n", "t", ":", "r", "a", "n", "d">>,
     <<"i", "n", "t", ":", "r", "a", "n", "d", "(", "1", "0", ",", "-", "1", "0", ")">>,
     <<"i", "n", "t", ":", "r", "a", "n", "d", "(", "-", "1", "0", ",", "1", "0", ")">>,
     <<"i", "n", "t", ":", "r", "a", "n", "d", "(", "3", ",", "3", ")">>,
     <<"i", "n", "t", ":", "r", "a", "n", "d", "(", " ", "2", " ", ",", " ", "1", " ", ")">>,
     <<"i", "n", "t", ":", "r", "a", "n", "d", "(", "2", ",", "1", ")", "\n">>,
     <<"s", "t", "r", ":", "r", "a", "n", "d", "(", "1", ",", "2", ")", "\n">>,
     <<"i", "n", "t", ":", "r", "a", "n", "d", "(", "0", "1", ",", "2", ")">>,
     <<"i", "n", "t", ":", "[", "]">>,
     <<"s", "t", "r", ":", "[", "]">>,
     <<"i", "n", "t", ":", "[", " ", "]">>,
     <<"i", "n", "t", ":", "[", "7", "]">>,
     <<"s", "t", "r", ":", "[", "'", "a", "'", "]">>,
     <<"i", "n", "t", ":", "[", "1", ",", "'", "a", "'", "]">>,
     <<"s", "t", "r", ":", "[", "'", "a", "'", ",", "1", "]">>,
     <<"i", "n", "t", ":", "[", "T", "r", "u", "e", "]">>,
     <<"i", "n", "t", ":", "[", "1", ",", " ", "T", "r", "u", "e", "]">>,
     <<"i", "n", "t", ":", "[", "N", "o", "n", "e", "]">>,
     <<"i", "n", "t", ":", "[", "[", "1", "]", "]">>,
     <<"i", "n", "t", ":", "[", "a", "]">>,
     <<"i", "n", "t", ":", "[", "1">>,
     <<"i", "n", "t", ":", "[", "{", "[", "]", "}", "]">>,
     <<"s", "t", "r", ":", "[", "{", "[", "]", "}", "]">>,
     <<"i", "n", "t", ":", "[", "{", "[", "]", "}", ",", " ", "a", "]">>,
     <<"i", "n", "t", ":", "[", "a", ",", " ", "{", "[", "]", "}", "]">>,
     <<"i", "n", "t", ":", "[", "{", "a", ",", "[", "]", "}", "]">>,
     <<"i", "n", "t", ":", "[", "{", "[", "]", ",", "a", "}", "]">>,
     <<"i", "n", "t", ":", "[", "{", "1", "}", "]">>,
     <<"i", "n", "t", ":", "[", "{", "}", "]">>,
     <<"s", "t", "r", ":", "[", "{", "'", "a", "'", "}", "]">>,
     <<"i", "n", "t", ":", "[", "1", ",", "\n", "2", "]">>,
     <<"s", "t", "r", ":", "[", "'", "a", "'", ",", "\n", "'", "b", "'", "]">>,
     <<"s", "t", "r", ":", "[", "1", ",", "\n", "2", "]">>,
     <<"s", "t", "r", ":", "[", "a", "]", "\n">>,
     <<"s", "t", "r", ":", "[", "'", "a", "'", "]", "\n">>,
     <<"i", "n", "t", ":", "[", "1", "]", "\n">>,
     <<"i", "n", "t", ":", "[", "]", "\n">>,
     <<"i", "n", "t", ":", " ", "4", "2", " ">>,
     <<"i", "n", "t", ":", "4", "_", "2">>,
     <<"i", "n", "t", ":", "+", "7">>,
     <<"i", "n", "t", ":", "-", "7">>,
     <<"i", "n", "t", ":", "4", " ", "2">>,
     <<"i", "n", "t", ":", "a", "b", "c">>,
     <<"i", "n", "t", ":", "4", "_", "_", "2">>,
     <<"i", "n", "t", ":", "_", "4">>,
     <<"s", "t", "r", ":", "a", ":", "b">>,
     <<"s", "t", "r", ":", " ", "r", "a", "n", "d">>,
     <<"s", "t", "r", ":", "r", "a", "n", "d", "(", "1", ",", "2">>,
     <<"t", "i", "m", "e", "s", "t", "a", "m", "p", ":", "z", "z", "z">>,
     <<"i", "n", "t", ":", "[", "0", "1", "]">>,
     <<"i", "n", "t", ":", "[", "0", "0", "]">>,
     <<"i", "n", "t", ":", "[", "1", ",", "]">>,
     <<"i", "n", "t", ":", "[", ",", "]">>,
     <<"i", "n", "t", ":", "[", "-", "1", "]">>,
     <<"i", "n", "t", ":", "[", "-", " ", "1", "]">>,
     <<"i", "n", "t", ":", "[", "-", "-", "1", "]">>,
     <<"i", "n", "t", ":", "[", "1", "-", "1", "]">>,
     <<"i", "n", "t", ":", "[", "-", "T", "r", "u", "e", "]">>,
     <<"i", "n", "t", ":", "[", "-", "'", "a", "'", "]">>,
     <<"s", "t", "r", ":", "[", "'", "a", "'", " ", "'", "b", "'", "]">>,
     <<"s", "t", "r", ":", "[", "\"", "a", "\"", "]">>,
     <<"i", "n", "t", ":", "[", "1", " ", "2", "]">>,
     <<"i", "n", "t", ":", "[", "1", "]", "]">>,
     <<"i", "n", "t", ":", "[", "[", "]">>,
     <<"s", "t", "r", ":", "[", "'", "a", "]">>,
     <<"s", "t", "r", ":", "[", "'", "[", "'", "]">>,
     <<"s", "t", "r", ":", "[", "'", "a", ",", "b", "'", "]">>,
     <<"n", "o", "c", "o", "l", "o", "n">>,
     <<>>,
     <<":">>,
     <<"i", "n", "t">>,
     <<"s", "t", "r", ":", "[">>,
     <<"s", "t", "r", ":", "]">>,
     <<"s", "t", "r", ":", "[", "]", "x">>,
     <<"i", "n", "t", ":", "[", "1", "]", ",", "[", "2", "]">>}

\* Specification strings the many-field schemas are built from: four that
\* compile, three the compiler rejects, one it raises on.
FieldPool ==
    {<<"i", "n", "t", ":", "5">>,
     <<"s", "t", "r", ":", "r", "a", "n", "d">>,
     <<"i", "n", "t", ":", "[", "1", ",", "2", "]">>,
     <<"t", "i", "m", "e", "s", "t", "a", "m", "p", ":", "n", "o", "w">>,
     <<"i", "n", "t", ":", "x">>,
     <<"s", "t", "r", ":", "r", "a", "n", "d", "(", "1", ",", "2", ")">>,
     <<"i", "n", "t", ":", "[", "{", "[", "]", "}", "]">>,
     <<"b", "a", "d">>}

\* Schemas of one field each: every string of SingleValues, a value that is
\* no string, a key that is no string.
SingleSchemas ==
    {PyDictOf(<< <<FieldNames[1], PyStr(s)>> >>) : s \in SingleValues}
    \cup {PyDictOf(<< <<FieldNames[1], PyInt(5)>> >>),
          PyDictOf(<< <<PyInt(7), PyStr(<<"i", "n", "t", ":", "5">>)>> >>)}

\* Schemas of up to MaxFields fields over FieldPool, and the empty schema.
PoolSchemas ==
    UNION {{PyDictOf([i \in 1..n |-> <<FieldNames[i], PyStr(f[i])>>]) :
              f \in [1..n -> FieldPool]} : n \in 0..MaxFields}

\* A schema that is no dict: a JSON array.
NotADict == PyList(<<PyStr(<<"i", "n", "t", ":", "5">>)>>)

CompileSchemas == SingleSchemas \cup PoolSchemas \cup {NotADict}

\* The schemas generate_data is run on: plans of several records (a choice, an
\* identifier), a plan of one record, a plan whose choice list is empty, a
\* schema rejected after a field that compiled, the empty schema.
GenerateSchemas ==
    {PyDictOf(<< <<FieldNames[1], PyStr(<<"i", "n", "t", ":", "[", "1", ",", "2", "]">>)>> >>),
     PyDictOf(<< <<FieldNames[1], PyStr(<<"i", "n", "t", ":", "5">>)>>,
                 <<FieldNames[2], PyStr(<<"s", "t", "r", ":", "r", "a", "n", "d">>)>> >>),
     PyDictOf(<< <<FieldNames[1], PyStr(<<"i", "n", "t", ":", "[", "]">>)>> >>),
     PyDictOf(<< <<FieldNames[1], PyStr(<<"i", "n", "t", ":", "[", "1", ",", "2", "]">>)>>,
                 <<FieldNames[2], PyStr(<<"s", "t", "r", ":", "r", "a", "n", "d", "(", "1", ",", "2", ")">>)>> >>),
     PyDictOf(<<>>)}

\* The most records one generate_data call is asked for.
MaxData == 2
\* The most worker processes one generate_data call is given.
MaxWorkers == 2

(***************************************************************************)
(* State                                                                   *)
(***************************************************************************)
VARIABLES
    data_schema,      \* the schema handed to DataGenerator(...)
    generator,        \* "none", "ready" (constructed) or "raised" (__init__ raised)
    ctor_exc,         \* the exception __init__ raised, or "none"
    generation_plan,  \* self.generation_plan, the items in order
    is_valid,         \* self.is_valid
    log,              \* the compiler's logging calls, in order
    validated,        \* how many fields' loop bodies have run
    one_file,         \* the latest direct call of _generate_one_file
    pc,               \* where the generate_data call is
    num_data,         \* its arguments
    num_workers,
    results,          \* the list being built
    ret,              \* what generate_data returned
    gd_exc,           \* what generate_data raised, or "none"
    futures,          \* the futures of executor.map, one per work unit
    workers,          \* per worker process: 0 idle, i > 0 running unit i, -1 dead
    collected,        \* how many futures the result iterator has read
    evals,            \* per work unit, how many times it has been evaluated
    done_order,       \* the work units in the order they completed
    sv_results,       \* the arguments of save_results_to_files: results,
    file_count,
    data_lines,
    file_name,
    prefix,
    sv_pc,            \* where the save_results_to_files call is
    chunk_i,          \* its loop variable i
    names_given,      \* how many names filename_gen has yielded
    saved_count,
    attempts,         \* the turns of the chunk loop that got a filename
    disk,             \* the files of save_path: their names and texts
    sv_log,           \* the file writer's logging calls, in order
    read_back,        \* what reading the written files back gave
    main_pc,          \* where main is: "idle" when it is not run
    exit_status,      \* the status main exited with, -1 while it has not
    args_workers,     \* args.workers
    args_path,        \* args.path_to_save_files
    args_schema,      \* args.data_schema
    clear_path,       \* args.clear_path
    cpu_cores,        \* os.cpu_count() or 1
    dir_before,       \* the files of save_path when main started
    printed           \* the records printed to the console

compileVars ==
    <<data_schema, generator, ctor_exc, generation_plan, is_valid, log,
      validated>>
callVars ==
    <<pc, num_data, num_workers, results, ret, gd_exc, futures, workers,
      collected, evals, done_order>>
saveVars ==
    <<sv_results, file_count, data_lines, file_name, prefix, sv_pc, chunk_i,
      names_given, saved_count, attempts, disk, sv_log, read_back>>
mainVars ==
    <<main_pc, exit_status, args_workers, args_path, args_schema, clear_path,
      cpu_cores, dir_before, printed>>
vars == <<compileVars, one_file, callVars, saveVars, mainVars>>

NotCalled == [called |-> FALSE, exc |-> "none", val |-> PyNone, at |-> 0]

InitCall ==
    /\ pc = "idle"
    /\ num_data = 0
    /\ num_workers = 0
    /\ results = <<>>
    /\ ret = <<>>
    /\ gd_exc = "none"
    /\ futures = <<>>
    /\ workers = <<>>
    /\ collected = 0
    /\ evals = <<>>
    /\ done_order = <<>>

NotRead == [done |-> FALSE, exc |-> "none", records |-> <<>>]

\* No save_results_to_files call has been entered; save_path is empty.
InitSaveCall ==
    /\ sv_pc = "idle"
    /\ chunk_i = 0
    /\ names_given = 0
    /\ saved_count = 0
    /\ attempts = <<>>
    /\ disk = {}
    /\ sv_log = <<>>
    /\ read_back = NotRead

\* main is not run.
InitNoMain ==
    /\ main_pc = "idle"
    /\ exit_status = 0 - 1
    /\ args_workers = 1
    /\ args_path = "dir"
    /\ args_schema = <<>>
    /\ clear_path = FALSE
    /\ cpu_cores = 1
    /\ dir_before = {}
    /\ printed = <<>>

\* No generator has been constructed and no call entered.
InitGenerator ==
    /\ generator = "none"
    /\ ctor_exc = "none"
    /\ generation_plan = <<>>
    /\ is_valid = FALSE
    /\ log = <<>>
    /\ validated = 0
    /\ one_file = NotCalled
    /\ InitCall

InitWith(schemas) ==
    /\ data_schema \in schemas
    /\ InitGenerator
    /\ sv_results = <<>>
    /\ file_count = 0
    /\ data_lines = 1
    /\ file_name = <<"o", "u", "t">>
    /\ prefix = "count"
    /\ InitSaveCall
    /\ InitNoMain

(***************************************************************************)
(* DataGenerator(data_schema) and a direct call of _generate_one_file      *)
(***************************************************************************)
\* __init__ after the compiler gave r: is_valid is what it returned; when it
\* raised, no generator comes to exist.
Constructed(r) ==
    /\ generator' = IF r.exc = "none" THEN "ready" ELSE "raised"
    /\ ctor_exc' = r.exc
    /\ generation_plan' = r.generation_plan
    /\ is_valid' = (r.exc = "none" /\ r.ret)
    /\ log' = r.log
    /\ validated' = r.validated

\* DataGenerator(data_schema)
Construct ==
    /\ generator = "none"
    /\ Constructed(_parse_and_compile_schema(data_schema))
    /\ UNCHANGED <<data_schema, one_file, callVars, saveVars, mainVars>>

\* generator._generate_one_file(), called once on the generator itself.
GenerateOne ==
    /\ generator = "ready"
    /\ pc = "idle"
    /\ ~one_file.called
    /\ \E o \in _generate_one_file(generation_plan) :
          one_file' = [called |-> TRUE, exc |-> o.exc, val |-> o.val, at |-> o.at]
    /\ UNCHANGED <<compileVars, callVars, saveVars, mainVars>>

NextCompile == Construct \/ GenerateOne

InitCompile == InitWith(CompileSchemas)

SpecCompile == InitCompile /\ [][NextCompile]_vars

(***************************************************************************)
(* generate_data(num_data, num_workers)                                    *)
(***************************************************************************)
\* A future of executor.map: pending, running in a worker, done (with a
\* result or an exception) or cancelled.
Future(st, exc, val) == [st |-> st, exc |-> exc, val |-> val]
Pending == Future("pending", "none", PyNone)
Running == Future("running", "none", PyNone)
Cancelled == Future("cancelled", "none", PyNone)

\* A guard that lets a plan with any rule in it through.
PlanUsableWithAnyRule(valid, plan) == valid \/ Len(plan) > 0

\* `if not self.is_valid: ... return []` lets only a valid generator on.
PlanUsable(valid, plan) == valid

\* The result iterator of executor.map reads the futures in the order they
\* were submitted: the next one is the one after those already read.
NextResult(coll, order) == coll + 1

\* A collection that takes whatever a future holds.
FutureNeverRaises(f) == FALSE

\* future.result() raises what the call raised, or BrokenProcessPool.
FutureRaises(f) == f.exc # "none"

\* The lowest unit still pending: the call queue is first in, first out.
FirstPending(fs) ==
    CHOOSE i \in 1..Len(fs) :
        fs[i].st = "pending" /\ \A j \in 1..(i - 1) : fs[j].st # "pending"

\* Every future that has not finished fails with BrokenProcessPool.
Broken(fs) ==
    [i \in 1..Len(fs) |->
        IF fs[i].st \in {"pending", "running"}
        THEN Future("done", "BrokenProcessPool", PyNone) ELSE fs[i]]

\* The result iterator's `finally`: every future not yet started is cancelled.
CancelAll(fs) ==
    [i \in 1..Len(fs) |-> IF fs[i].st = "pending" THEN Cancelled ELSE fs[i]]

\* generate_data(n, w) is entered: an invalid generator returns [] at once;
\* one worker or fewer starts the list comprehension; more start the pool
\* and submit every unit.
GenerateDataEntered(n, w) ==
    /\ num_data' = n
    /\ num_workers' = w
    /\ evals' = [i \in 1..n |-> 0]
    /\ IF ~PlanUsable(is_valid, generation_plan)
       THEN /\ pc' = "returned"
            /\ futures' = <<>>
            /\ workers' = <<>>
       ELSE IF w <= 1
       THEN /\ pc' = "seq"
            /\ futures' = <<>>
            /\ workers' = <<>>
       ELSE /\ pc' = "pool"
            /\ futures' = [i \in 1..n |-> Pending]
            /\ workers' = [k \in 1..w |-> 0]
    /\ results' = <<>>
    /\ ret' = <<>>
    /\ gd_exc' = "none"
    /\ collected' = 0
    /\ done_order' = <<>>

\* generator.generate_data(n, w), called on the generator itself.
CallGenerateData ==
    /\ generator = "ready"
    /\ pc = "idle"
    /\ \E n \in 0..MaxData, w \in 0..MaxWorkers : GenerateDataEntered(n, w)
    /\ UNCHANGED <<compileVars, one_file, saveVars, mainVars>>

\* One turn of `[self._generate_one_file() for _ in range(num_data)]`: the
\* record is appended, or the exception leaves generate_data.
SeqStep ==
    /\ pc = "seq"
    /\ Len(results) < num_data
    /\ \E o \in _generate_one_file(generation_plan) :
          /\ evals' = [evals EXCEPT ![Len(results) + 1] = @ + 1]
          /\ IF o.exc = "none"
             THEN /\ results' = Append(results, o.val)
                  /\ done_order' = Append(done_order, Len(results) + 1)
                  /\ UNCHANGED <<pc, gd_exc>>
             ELSE /\ pc' = "raised"
                  /\ gd_exc' = o.exc
                  /\ UNCHANGED <<results, done_order>>
    /\ UNCHANGED <<mainVars, saveVars, compileVars, one_file, num_data, num_workers, ret, futures,
                   workers, collected>>

\* The list comprehension is exhausted and its list is returned.
SeqReturn ==
    /\ pc = "seq"
    /\ Len(results) = num_data
    /\ pc' = "returned"
    /\ ret' = results
    /\ UNCHANGED <<mainVars, saveVars, compileVars, one_file, num_data, num_workers, results,
                   gd_exc, futures, workers, collected, evals, done_order>>

\* An idle worker process takes the next unit off the call queue.
WorkerTake(k) ==
    /\ pc \in {"pool", "unwinding"}
    /\ workers[k] = 0
    /\ \E i \in 1..Len(futures) : futures[i].st = "pending"
    /\ workers' = [workers EXCEPT ![k] = FirstPending(futures)]
    /\ futures' = [futures EXCEPT ![FirstPending(futures)] = Running]
    /\ UNCHANGED <<mainVars, saveVars, compileVars, one_file, pc, num_data, num_workers, results,
                   ret, gd_exc, collected, evals, done_order>>

\* A worker finishes _generate_one_file(i): the future gets the record or
\* the exception.
WorkerFinish(k) ==
    /\ pc \in {"pool", "unwinding"}
    /\ workers[k] > 0
    /\ \E o \in _generate_one_file(generation_plan) :
          futures' = [futures EXCEPT ![workers[k]] = Future("done", o.exc, o.val)]
    /\ evals' = [evals EXCEPT ![workers[k]] = @ + 1]
    /\ done_order' = Append(done_order, workers[k])
    /\ workers' = [workers EXCEPT ![k] = 0]
    /\ UNCHANGED <<mainVars, saveVars, compileVars, one_file, pc, num_data, num_workers, results,
                   ret, gd_exc, collected>>

\* A worker process dies: the pool is broken, every unfinished future fails
\* with BrokenProcessPool and the other workers are terminated.
WorkerCrash(k) ==
    /\ pc \in {"pool", "unwinding"}
    /\ workers[k] >= 0
    /\ futures' = Broken(futures)
    /\ workers' = [j \in 1..Len(workers) |-> -1]
    /\ UNCHANGED <<mainVars, saveVars, compileVars, one_file, pc, num_data, num_workers, results,
                   ret, gd_exc, collected, evals, done_order>>

\* list(...) reads the future f, the next one of the result iterator: its
\* record is appended, or its exception is raised and the futures not yet
\* started are cancelled.
Collected(f) ==
    /\ f.st = "done"
    /\ IF FutureRaises(f)
       THEN /\ pc' = "unwinding"
            /\ gd_exc' = f.exc
            /\ futures' = CancelAll(futures)
            /\ UNCHANGED <<results, collected>>
       ELSE /\ results' = Append(results, f.val)
            /\ collected' = collected + 1
            /\ UNCHANGED <<pc, gd_exc, futures>>

Collect ==
    /\ pc = "pool"
    /\ collected < num_data
    /\ NextResult(collected, done_order) \in 1..num_data
    /\ Collected(futures[NextResult(collected, done_order)])
    /\ UNCHANGED <<mainVars, saveVars, compileVars, one_file, num_data, num_workers, ret, workers,
                   evals, done_order>>

\* Every future is read: the `with` block is left and the list is returned.
PoolReturn ==
    /\ pc = "pool"
    /\ collected = num_data
    /\ pc' = "returned"
    /\ ret' = results
    /\ UNCHANGED <<mainVars, saveVars, compileVars, one_file, num_data, num_workers, results,
                   gd_exc, futures, workers, collected, evals, done_order>>

\* The `with` block is left by the exception: shutdown waits for the units
\* that run, then the exception leaves generate_data.
PoolRaise ==
    /\ pc = "unwinding"
    /\ \A k \in 1..Len(workers) : workers[k] <= 0
    /\ pc' = "raised"
    /\ UNCHANGED <<mainVars, saveVars, compileVars, one_file, num_data, num_workers, results, ret,
                   gd_exc, futures, workers, collected, evals, done_order>>

Next ==
    \/ Construct
    \/ CallGenerateData
    \/ SeqStep
    \/ SeqReturn
    \/ \E k \in 1..MaxWorkers : k <= Len(workers) /\ WorkerTake(k)
    \/ \E k \in 1..MaxWorkers : k <= Len(workers) /\ WorkerFinish(k)
    \/ \E k \in 1..MaxWorkers : k <= Len(workers) /\ WorkerCrash(k)
    \/ Collect
    \/ PoolReturn
    \/ PoolRaise

Init == InitWith(GenerateSchemas)

Spec == Init /\ [][Next]_vars

(***************************************************************************)
(* save_results_to_files(results, file_count, data_lines, ...)             *)
(***************************************************************************)
\* One logging call of the file writer.
SaveLog(level, msg) == [level |-> level, msg |-> msg]

\* One pass of the chunk loop: the chunk that starts at index i, the name it
\* was given, and whether the file was written.
Attempt(i, name, ok) == [i |-> i, name |-> name, ok |-> ok]

\* save_results_to_files is entered: nothing to save returns at once;
\* range(0, len(results), 0) raises ValueError; otherwise the loop starts.
SaveCall ==
    /\ sv_pc = "idle"
    /\ IF sv_results = <<>>
       THEN /\ sv_pc' = "done"
            /\ sv_log' = <<SaveLog("warning", "nothing to save")>>
       ELSE IF data_lines = 0
       THEN /\ sv_pc' = "raised"
            /\ sv_log' = <<>>
       ELSE /\ sv_pc' = "loop"
            /\ sv_log' = <<>>
    /\ chunk_i' = 0
    /\ names_given' = 0
    /\ saved_count' = 0
    /\ attempts' = <<>>
    /\ UNCHANGED <<sv_results, file_count, data_lines, file_name, prefix, disk,
                   read_back, compileVars, one_file, callVars, mainVars>>

\* The loop `for i in range(0, len(results), data_lines)` has a turn left.
LoopRuns == sv_pc = "loop" /\ data_lines > 0 /\ chunk_i < Len(sv_results)

\* A loop that an OSError ends.
AfterWriteStopsOnError(ok) == IF ok THEN "loop" ELSE "done"

\* After the write, and after `except OSError` has logged a failed one, the
\* loop goes on.
AfterWrite(ok) == "loop"

\* The turn's file was written (w.ok) or failed with OSError.
Saved(name, w) ==
    /\ sv_pc' = AfterWrite(w.ok)
    /\ disk' = w.dir
    /\ attempts' = Append(attempts, Attempt(chunk_i, name, w.ok))
    /\ saved_count' = IF w.ok THEN saved_count + 1 ELSE saved_count
    /\ sv_log' = IF w.ok THEN Append(sv_log, SaveLog("debug", "saved"))
                 ELSE Append(sv_log, SaveLog("error", "failed to write"))

\* One turn of the loop that gets a filename: the chunk is written to it, or
\* the OSError is logged; the loop goes on.
SaveChunk ==
    /\ LoopRuns
    /\ \E y \in _generate_filenames(file_name, prefix, file_count, names_given) :
          /\ ~y.stop
          /\ \E w \in WriteOutcomes(disk, y.name,
                                    Slice(sv_results, chunk_i, chunk_i + data_lines)) :
                Saved(y.name, w)
    /\ names_given' = names_given + 1
    /\ chunk_i' = chunk_i + data_lines
    /\ UNCHANGED <<sv_results, file_count, data_lines, file_name, prefix,
                   read_back, compileVars, one_file, callVars, mainVars>>

\* One turn of the loop that gets StopIteration: a warning, and the loop is
\* left with the chunks that remain unsaved.
SaveStop ==
    /\ LoopRuns
    /\ \E y \in _generate_filenames(file_name, prefix, file_count, names_given) :
          y.stop
    /\ sv_pc' = "done"
    /\ sv_log' = sv_log \o <<SaveLog("warning", "more chunks than file_count"),
                             SaveLog("info", "saved")>>
    /\ UNCHANGED <<sv_results, file_count, data_lines, file_name, prefix,
                   chunk_i, names_given, saved_count, attempts, disk, read_back,
                   compileVars, one_file, callVars, mainVars>>

\* The loop is exhausted.
SaveReturn ==
    /\ sv_pc = "loop"
    /\ ~LoopRuns
    /\ sv_pc' = "done"
    /\ sv_log' = Append(sv_log, SaveLog("info", "saved"))
    /\ UNCHANGED <<sv_results, file_count, data_lines, file_name, prefix,
                   chunk_i, names_given, saved_count, attempts, disk, read_back,
                   compileVars, one_file, callVars, mainVars>>

RECURSIVE WrittenNames(_, _, _)
\* The names of the files written, each once, in the order they were first
\* written.
WrittenNames(att, i, acc) ==
    IF i > Len(att) THEN acc
    ELSE IF att[i].ok /\ \A j \in 1..Len(acc) : acc[j] # att[i].name
    THEN WrittenNames(att, i + 1, Append(acc, att[i].name))
    ELSE WrittenNames(att, i + 1, acc)

\* The text of the file name in the directory.
TextOf(dir, name) == (CHOOSE f \in dir : f.name = name).text

RECURSIVE Lines(_, _, _, _)
\* The lines of text from position p on, after the lines acc and the
\* characters cur of the line being read: a line ends with its newline.
Lines(text, p, cur, acc) ==
    IF p > Len(text) THEN (IF cur = <<>> THEN acc ELSE Append(acc, cur))
    ELSE IF text[p] = "\n" THEN Lines(text, p + 1, <<>>, Append(acc, Append(cur, "\n")))
    ELSE Lines(text, p + 1, Append(cur, text[p]), acc)

RECURSIVE DecodeLines(_, _, _)
\* json.loads of each line from the i-th on, after the records acc.
DecodeLines(ls, i, acc) ==
    IF i > Len(ls) THEN [exc |-> "none", records |-> acc]
    ELSE IF json_loads(ls[i]).exc # "none"
    THEN [exc |-> json_loads(ls[i]).exc, records |-> acc]
    ELSE DecodeLines(ls, i + 1, Append(acc, json_loads(ls[i]).val))

RECURSIVE ReadFiles(_, _, _, _)
\* The records of the files names[i..], read after the records acc.
ReadFiles(dir, names, i, acc) ==
    IF i > Len(names) THEN [exc |-> "none", records |-> acc]
    ELSE IF DecodeLines(Lines(TextOf(dir, names[i]), 1, <<>>, <<>>), 1, acc).exc # "none"
    THEN DecodeLines(Lines(TextOf(dir, names[i]), 1, <<>>, <<>>), 1, acc)
    ELSE ReadFiles(dir, names, i + 1,
                   DecodeLines(Lines(TextOf(dir, names[i]), 1, <<>>, <<>>), 1, acc).records)

\* What the reader got.
WasRead(r) == [done |-> TRUE, exc |-> r.exc, records |-> r.records]

\* The written files are read back in the order they were written, line by
\* line, each line decoded with json.loads.
ReadBack ==
    /\ sv_pc = "done"
    /\ ~read_back.done
    /\ read_back' = WasRead(ReadFiles(disk, WrittenNames(attempts, 1, <<>>), 1, <<>>))
    /\ UNCHANGED <<sv_results, file_count, data_lines, file_name, prefix, sv_pc,
                   chunk_i, names_given, saved_count, attempts, disk, sv_log,
                   compileVars, one_file, callVars, mainVars>>

NextSave == SaveCall \/ SaveChunk \/ SaveStop \/ SaveReturn \/ ReadBack

InitSave ==
    /\ data_schema = PyDict
    /\ InitGenerator
    /\ sv_results \in SaveInputs
    /\ file_count \in 0..MaxFiles
    /\ data_lines \in (0 - 1)..MaxLines
    /\ file_name = <<"o", "u", "t">>
    /\ prefix \in Prefixes
    /\ InitSaveCall
    /\ InitNoMain

SpecSave == InitSave /\ [][NextSave]_vars

(***************************************************************************)
(* main(args)                                                              *)
(***************************************************************************)
\* sys.exit(status)
Exit(status) ==
    /\ main_pc' = "exited"
    /\ exit_status' = status

\* The argument, path and schema validation: a negative file_count or worker
\* count, a save path that is no directory, or a schema that does not load
\* or loads as a falsy value exits with 1; the worker count is capped at the
\* CPU cores on the way.
Validated(schema) ==
    IF \/ file_count < 0
       \/ args_workers < 0
       \/ validate_save_path(args_path) = "none"
       \/ Falsy(schema)
    THEN /\ Exit(1)
         /\ UNCHANGED data_schema
    ELSE /\ main_pc' = "clear"
         /\ data_schema' = schema
         /\ UNCHANGED exit_status

MainValidate ==
    /\ main_pc = "start"
    /\ Validated(load_data_schema(args_schema))
    /\ args_workers' =
           IF file_count >= 0 /\ args_workers > cpu_cores
           THEN cpu_cores ELSE args_workers
    /\ UNCHANGED <<generator, ctor_exc, generation_plan, is_valid, log,
                   validated, one_file, callVars, saveVars, args_path,
                   args_schema, clear_path, cpu_cores, dir_before, printed>>

\* `if args.clear_path and args.file_count > 0: handle_clear_path(...)`
MainClear ==
    /\ main_pc = "clear"
    /\ IF clear_path /\ file_count > 0
       THEN disk' \in handle_clear_path(disk, file_name)
       ELSE disk' = disk
    /\ main_pc' = "construct"
    /\ UNCHANGED <<compileVars, one_file, callVars, sv_results, file_count,
                   data_lines, file_name, prefix, sv_pc, chunk_i, names_given,
                   saved_count, attempts, sv_log, read_back, exit_status,
                   args_workers, args_path, args_schema, clear_path, cpu_cores,
                   dir_before, printed>>

\* After DataGenerator(data_schema) gave r: an exception it raised ends the
\* process with status 1, an invalid generator exits with 1, a valid one goes
\* on to the generation.
AfterConstruct(r) ==
    IF r.exc # "none" \/ ~r.ret THEN Exit(1)
    ELSE main_pc' = "generate" /\ UNCHANGED exit_status

\* `generator = DataGenerator(data_schema)` and the check of is_valid.
MainConstruct ==
    /\ main_pc = "construct"
    /\ Constructed(_parse_and_compile_schema(data_schema))
    /\ AfterConstruct(_parse_and_compile_schema(data_schema))
    /\ UNCHANGED <<data_schema, one_file, callVars, saveVars, args_workers,
                   args_path, args_schema, clear_path, cpu_cores, dir_before,
                   printed>>

\* The number of records main asks for: data_lines for the console,
\* file_count * data_lines for the files.
total_items_to_generate ==
    IF file_count = 0 THEN data_lines ELSE file_count * data_lines

\* `results = generator.generate_data(num_data=..., num_workers=args.workers)`
\* is entered.
MainGenerate ==
    /\ main_pc = "generate"
    /\ GenerateDataEntered(total_items_to_generate, args_workers)
    /\ main_pc' = "generating"
    /\ UNCHANGED <<compileVars, one_file, saveVars, exit_status, args_workers,
                   args_path, args_schema, clear_path, cpu_cores, dir_before,
                   printed>>

\* generate_data has raised: the exception ends the process with status 1.
MainGenerationRaised ==
    /\ main_pc = "generating"
    /\ pc = "raised"
    /\ Exit(1)
    /\ UNCHANGED <<compileVars, one_file, callVars, saveVars, args_workers,
                   args_path, args_schema, clear_path, cpu_cores, dir_before,
                   printed>>

\* generate_data has returned and file_count is 0: the records are printed
\* and main exits with 0.
MainPrint ==
    /\ main_pc = "generating"
    /\ pc = "returned"
    /\ file_count = 0
    /\ printed' = ret
    /\ Exit(0)
    /\ UNCHANGED <<compileVars, one_file, callVars, saveVars, args_workers,
                   args_path, args_schema, clear_path, cpu_cores, dir_before>>

\* generate_data has returned and file_count is not 0: the records are
\* handed to save_results_to_files.
MainSave ==
    /\ main_pc = "generating"
    /\ pc = "returned"
    /\ file_count # 0
    /\ sv_results' = ret
    /\ main_pc' = "saving"
    /\ UNCHANGED <<compileVars, one_file, callVars, file_count, data_lines,
                   file_name, prefix, sv_pc, chunk_i, names_given, saved_count,
                   attempts, disk, sv_log, read_back, exit_status, args_workers,
                   args_path, args_schema, clear_path, cpu_cores, dir_before,
                   printed>>

\* save_results_to_files has returned: sys.exit(0).
MainExit ==
    /\ main_pc = "saving"
    /\ sv_pc = "done"
    /\ Exit(0)
    /\ UNCHANGED <<compileVars, one_file, callVars, saveVars, args_workers,
                   args_path, args_schema, clear_path, cpu_cores, dir_before,
                   printed>>

\* main, with the steps of the generate_data and save_results_to_files calls
\* it makes.  The writer's StopIteration step is not among them: argparse
\* admits only the prefixes count, random and uuid, main hands the writer
\* file_count * data_lines records with file_count >= 1, and the name
\* generator then has a name for each of the file_count chunks.
NextMain ==
    \/ MainValidate
    \/ MainClear
    \/ MainConstruct
    \/ MainGenerate
    \/ main_pc = "generating" /\ SeqStep
    \/ main_pc = "generating" /\ SeqReturn
    \/ \E k \in 1..MaxWorkers :
          main_pc = "generating" /\ k <= Len(workers) /\ WorkerTake(k)
    \/ \E k \in 1..MaxWorkers :
          main_pc = "generating" /\ k <= Len(workers) /\ WorkerFinish(k)
    \/ \E k \in 1..MaxWorkers :
          main_pc = "generating" /\ k <= Len(workers) /\ WorkerCrash(k)
    \/ main_pc = "generating" /\ Collect
    \/ main_pc = "generating" /\ PoolReturn
    \/ main_pc = "generating" /\ PoolRaise
    \/ MainGenerationRaised
    \/ MainPrint
    \/ MainSave
    \/ main_pc = "saving" /\ SaveCall
    \/ main_pc = "saving" /\ SaveChunk
    \/ main_pc = "saving" /\ SaveReturn
    \/ MainExit

InitMain ==
    /\ data_schema = PyNone
    /\ InitGenerator
    /\ sv_results = <<>>
    /\ file_count \in (0 - 1)..MaxMainFiles
    /\ data_lines \in 0..MaxLines
    /\ file_name = <<"o", "u", "t">>
    /\ prefix \in {"count", "random", "uuid"}
    /\ sv_pc = "idle"
    /\ chunk_i = 0
    /\ names_given = 0
    /\ saved_count = 0
    /\ attempts = <<>>
    /\ disk = DirBefore
    /\ sv_log = <<>>
    /\ read_back = NotRead
    /\ main_pc = "start"
    /\ exit_status = 0 - 1
    /\ args_workers \in (0 - 1)..(MaxWorkers + 1)
    /\ args_path \in SavePaths
    /\ args_schema \in SchemaArgs
    /\ clear_path \in BOOLEAN
    /\ cpu_cores \in 1..MaxWorkers
    /\ dir_before = DirBefore
    /\ printed = <<>>

SpecMain == InitMain /\ [][NextMain]_vars

(***************************************************************************)
(* The compiler's properties                                               *)
(***************************************************************************)
\* The schema is a dict whose i-th value is a specification string
\* "<type>:<source>" with a string key.
IsSpecString(i) ==
    /\ data_schema.ty = "dict"
    /\ i \in 1..Len(data_schema.v)
    /\ data_schema.v[i][1].ty = "str"
    /\ data_schema.v[i][2].ty = "str"
    /\ \E j \in 1..Len(data_schema.v[i][2].v) : data_schema.v[i][2].v[j] = ":"

KeyOf(i) == data_schema.v[i][1]
TypeOf(i) == SplitColon(data_schema.v[i][2].v)[1]
SourceOf(i) == SplitColon(data_schema.v[i][2].v)[2]

\* The i-th field's rule is in the plan (the fields enter the plan in order).
InPlan(i) == i <= Len(generation_plan) /\ generation_plan[i][1] = KeyOf(i)

\* The structural test for a bracketed list: the text begins with [ and ends
\* with ].
Bracketed(s) == Len(s) >= 2 /\ s[1] = "[" /\ s[Len(s)] = "]"

\* The i-th field is int:rand(a, b).
IsRandInt(i) ==
    /\ IsSpecString(i)
    /\ TypeOf(i) = <<"i", "n", "t">>
    /\ RAND_INT_PATTERN(SourceOf(i)).matched

\* The integers a and b the i-th field int:rand(a, b) writes.
BoundA(i) == IntOfText(RAND_INT_PATTERN(SourceOf(i)).groups[1]).val
BoundB(i) == IntOfText(RAND_INT_PATTERN(SourceOf(i)).groups[2]).val

\* The source rand(b,a) for the i-th field int:rand(a, b).
Swapped(i) ==
    <<"r", "a", "n", "d", "(">> \o RAND_INT_PATTERN(SourceOf(i)).groups[2]
    \o <<",">> \o RAND_INT_PATTERN(SourceOf(i)).groups[1] \o <<")">>

\* The value the latest _generate_one_file call gave the key of field i.
ValueAt(i) == one_file.val.v[i][2]

\* The latest _generate_one_file call evaluated the rule of field i.
Evaluated1(i) == one_file.called /\ (one_file.at = 0 \/ one_file.at >= i)

\* C6: a field int:rand(a, b) compiles to the random-integer rule with the
\* bounds (min(a,b), max(a,b)), low bound <= high bound; every evaluation of
\* it yields an integer between them; and rand(b, a) compiles to the same rule.
C6_RandIntNormalised ==
    generator = "ready" =>
        \A i \in 1..Len(generation_plan) :
            IsRandInt(i) =>
                /\ generation_plan[i][2] =
                       partial("_generate_rand_int",
                               <<PyInt(IF BoundA(i) <= BoundB(i) THEN BoundA(i) ELSE BoundB(i)),
                                 PyInt(IF BoundA(i) <= BoundB(i) THEN BoundB(i) ELSE BoundA(i))>>)
                /\ generation_plan[i][2].args[1].v <= generation_plan[i][2].args[2].v
                /\ CompileInt(KeyOf(i), Swapped(i)).func = generation_plan[i][2]
                /\ Evaluated1(i) =>
                      /\ one_file.at # i
                      /\ one_file.exc = "none" =>
                            /\ ValueAt(i).ty = "int"
                            /\ ValueAt(i).v >= generation_plan[i][2].args[1].v
                            /\ ValueAt(i).v <= generation_plan[i][2].args[2].v
                            /\ (BoundA(i) <= ValueAt(i).v /\ ValueAt(i).v <= BoundB(i))
                               \/ (BoundB(i) <= ValueAt(i).v /\ ValueAt(i).v <= BoundA(i))

\* C6's case: a field written with descending bounds, a > b, was evaluated
\* and gave the low bound b.
C6_Witness ==
    /\ generator = "ready"
    /\ one_file.called
    /\ one_file.exc = "none"
    /\ IsRandInt(1)
    /\ BoundA(1) > BoundB(1)
    /\ ValueAt(1) = PyInt(BoundB(1))

\* C2: for a schema that compiles as valid, the plan holds exactly one rule
\* for each schema key and no other key, and a plan evaluation completes and
\* returns a record whose key set is the schema's key set.
C2_ValidPlanEvaluates ==
    (generator = "ready" /\ is_valid) =>
        /\ Len(generation_plan) = Len(data_schema.v)
        /\ DictKeys(generation_plan) = DictKeys(data_schema.v)
        /\ one_file.called =>
              /\ one_file.exc = "none"
              /\ DictKeys(one_file.val.v) = DictKeys(data_schema.v)

\* The part of C2 about the plan alone: one rule per schema key, no other.
PlanKeysAreSchemaKeys ==
    (generator = "ready" /\ is_valid) =>
        /\ Len(generation_plan) = Len(data_schema.v)
        /\ DictKeys(generation_plan) = DictKeys(data_schema.v)
        /\ (one_file.called /\ one_file.exc = "none") =>
              DictKeys(one_file.val.v) = DictKeys(data_schema.v)

\* The compiler gives no rule for the i-th field, taken alone.
Invalid(i) ==
    \/ CompileField(data_schema.v[i][1], data_schema.v[i][2]).exc # "none"
    \/ CompileField(data_schema.v[i][1], data_schema.v[i][2]).func = None

\* The i-th field is the first invalid field of the schema.
FirstInvalid(i) == Invalid(i) /\ \A j \in 1..(i - 1) : ~Invalid(j)

\* The plan holds the rules of exactly the fields before the i-th, no log
\* record is about a later field, and no later field's loop body ran.
StoppedAt(i) ==
    /\ validated = i
    /\ Len(generation_plan) = i - 1
    /\ \A j \in 1..(i - 1) :
          generation_plan[j] =
              <<KeyOf(j), CompileField(data_schema.v[j][1], data_schema.v[j][2]).func>>
    /\ \A l \in 1..Len(log) : \E j \in 1..i : log[l].key = KeyOf(j)

\* C3: when the first invalid field is at position i, compilation returns
\* invalid at that field; no later field is validated, added to the plan or
\* diagnosed; the plan holds rules for exactly the fields before position i.
C3_FailFast ==
    (generator # "none" /\ data_schema.ty = "dict") =>
        \A i \in 1..Len(data_schema.v) :
            FirstInvalid(i) =>
                /\ generator = "ready"
                /\ ~is_valid
                /\ StoppedAt(i)

\* The part of C3 about the order: the compiler stops at the first invalid
\* field, whether it returns False there or raises.
StopsAtFirstInvalid ==
    (generator # "none" /\ data_schema.ty = "dict") =>
        \A i \in 1..Len(data_schema.v) :
            FirstInvalid(i) => (~is_valid /\ StoppedAt(i))

\* C7: every evaluation of a choice rule compiled from an accepted bracketed
\* list yields a value that is a member of the declared option list.
C7_ChoiceYieldsMember ==
    generator = "ready" =>
        \A i \in 1..Len(generation_plan) :
            (generation_plan[i][2].fn = "_generate_from_list" /\ Evaluated1(i)) =>
                /\ one_file.at # i
                /\ one_file.exc = "none" =>
                      \E j \in 1..Len(generation_plan[i][2].args[1].v) :
                          ValueAt(i) = generation_plan[i][2].args[1].v[j]

\* The part of C7 about the lists that hold an option: an evaluation that
\* yields a value yields a member of the list.
ChoiceValueIsMember ==
    generator = "ready" =>
        \A i \in 1..Len(generation_plan) :
            (generation_plan[i][2].fn = "_generate_from_list"
             /\ Evaluated1(i) /\ one_file.exc = "none") =>
                \E j \in 1..Len(generation_plan[i][2].args[1].v) :
                    ValueAt(i) = generation_plan[i][2].args[1].v[j]

\* The text parses as a literal list all of whose elements are item_type's.
LiteralListOf(s, item_type) ==
    /\ literal_eval(s).exc = "none"
    /\ literal_eval(s).val.ty = "list"
    /\ \A j \in 1..Len(literal_eval(s).val.v) :
          IsInstance(literal_eval(s).val.v[j], item_type)

\* The i-th field is an int or str field whose source begins with [ and ends
\* with ].
IsBracketed(i) ==
    /\ IsSpecString(i)
    /\ TypeOf(i) \in {<<"i", "n", "t">>, <<"s", "t", "r">>}
    /\ Bracketed(SourceOf(i))

\* C8: an int (str) field whose source begins with [ and ends with ] is
\* accepted exactly when the source parses as a literal list of integers
\* (strings); in every other case compilation returns a rejection, never an
\* uncaught failure.
C8_BracketedListDecided ==
    generator # "none" =>
        \A i \in 1..validated :
            IsBracketed(i) =>
                /\ generator = "ready"
                /\ InPlan(i) <=>
                       LiteralListOf(SourceOf(i),
                                     IF TypeOf(i) = <<"i", "n", "t">> THEN "int" ELSE "str")
                /\ ~InPlan(i) => ~is_valid

\* C9: a str field whose source matches rand(<int>, <int>) is rejected and
\* makes the schema invalid; str:rand compiles to the random-UUID rule; every
\* other non-empty, non-bracketed str source compiles to the static string
\* that is the text after the first colon.
C9_StrSources ==
    generator # "none" =>
        \A i \in 1..validated :
            (IsSpecString(i) /\ TypeOf(i) = <<"s", "t", "r">>) =>
                IF RAND_INT_PATTERN(SourceOf(i)).matched
                THEN generator = "ready" /\ ~is_valid /\ ~InPlan(i)
                ELSE IF SourceOf(i) = <<"r", "a", "n", "d">>
                THEN InPlan(i) /\ generation_plan[i][2] = partial("_generate_uuid", <<>>)
                ELSE (SourceOf(i) # <<>> /\ ~Bracketed(SourceOf(i))) =>
                        /\ InPlan(i)
                        /\ generation_plan[i][2] =
                               partial("_generate_static_value", <<PyStr(SourceOf(i))>>)

\* C9 with the compiler's own test for a bracketed list, LIST_PATTERN, in the
\* place of the structural test.
StrSourcesByPattern ==
    generator # "none" =>
        \A i \in 1..validated :
            (IsSpecString(i) /\ TypeOf(i) = <<"s", "t", "r">>) =>
                IF RAND_INT_PATTERN(SourceOf(i)).matched
                THEN generator = "ready" /\ ~is_valid /\ ~InPlan(i)
                ELSE IF SourceOf(i) = <<"r", "a", "n", "d">>
                THEN InPlan(i) /\ generation_plan[i][2] = partial("_generate_uuid", <<>>)
                ELSE (SourceOf(i) # <<>> /\ ~LIST_PATTERN(SourceOf(i))) =>
                        /\ InPlan(i)
                        /\ generation_plan[i][2] =
                               partial("_generate_static_value", <<PyStr(SourceOf(i))>>)

(***************************************************************************)
(* generate_data's properties                                              *)
(***************************************************************************)
\* A generate_data call has been entered.
Entered == generator = "ready" /\ pc # "idle"

\* No rule of the plan has been evaluated by the call: no unit was run, in
\* the caller or in a worker, and none was submitted.
NothingEvaluated ==
    /\ \A i \in 1..Len(evals) : evals[i] = 0
    /\ futures = <<>>
    /\ done_order = <<>>
    /\ results = <<>>

\* C1: on a generator whose schema was rejected (is_valid False),
\* generate_data returns the empty sequence whatever num_data and num_workers
\* are, and evaluates no rule, also when the plan holds the rules of the
\* fields that compiled before the rejected one.
C1_InvalidReturnsEmpty ==
    (Entered /\ ~is_valid) =>
        /\ pc = "returned"
        /\ ret = <<>>
        /\ gd_exc = "none"
        /\ NothingEvaluated

\* C1's case: the rejected schema left a rule in the plan, and generate_data
\* was asked for records from more than one worker.
C1_Witness ==
    /\ Entered
    /\ ~is_valid
    /\ Len(generation_plan) >= 1
    /\ num_data >= 1
    /\ num_workers > 1
    /\ pc = "returned"

\* C1's case with one worker.
InvalidSequentialReached ==
    /\ Entered
    /\ ~is_valid
    /\ Len(generation_plan) >= 1
    /\ num_data >= 1
    /\ num_workers <= 1
    /\ pc = "returned"

\* The keys of the record rec are the keys of the plan.
HasPlanKeys(rec) ==
    rec.ty = "dict" /\ DictKeys(rec.v) = DictKeys(generation_plan)

\* No worker process has died.
NoWorkerDied == \A k \in 1..Len(workers) : workers[k] >= 0

\* C4: on a valid plan, with no worker lost, generate_data returns exactly
\* num_data records; with more than one worker the record at position i is
\* the result of work unit i, in whatever order the workers took and
\* completed the units; with one worker or fewer the sequence has the same
\* length and its records the same keys.
C4_ReturnsAllInOrder ==
    (Entered /\ is_valid /\ pc \in {"returned", "raised"} /\ NoWorkerDied) =>
        /\ pc = "returned"
        /\ Len(ret) = num_data
        /\ \A i \in 1..Len(ret) : HasPlanKeys(ret[i])
        /\ num_workers > 1 =>
              \A i \in 1..Len(ret) :
                  /\ futures[i].st = "done"
                  /\ futures[i].exc = "none"
                  /\ ret[i] = futures[i].val

\* What generate_data returns on a valid plan, when it returns: num_data
\* records with the plan's keys, and with more than one worker the record at
\* position i is the result of work unit i.
ResultsInDispatchOrder ==
    (Entered /\ is_valid /\ pc = "returned") =>
        /\ Len(ret) = num_data
        /\ \A i \in 1..Len(ret) : HasPlanKeys(ret[i])
        /\ num_workers > 1 =>
              \A i \in 1..Len(ret) :
                  /\ futures[i].st = "done"
                  /\ futures[i].exc = "none"
                  /\ ret[i] = futures[i].val

\* The units completed in another order than they were dispatched in, with
\* different records, and the call returned.
OutOfOrderCompletionReturned ==
    /\ Entered
    /\ is_valid
    /\ pc = "returned"
    /\ num_workers > 1
    /\ Len(done_order) >= 2
    /\ done_order[1] > done_order[2]
    /\ ret[1] # ret[2]

\* One worker returned as many records as were asked for.
SequentialReturned ==
    /\ Entered
    /\ is_valid
    /\ pc = "returned"
    /\ num_workers <= 1
    /\ Len(ret) = MaxData

\* A unit failed: its evaluation raised, or it was lost with a broken pool.
UnitFailed(i) ==
    IF num_workers > 1
    THEN futures[i].st = "done" /\ futures[i].exc # "none"
    ELSE pc = "raised" /\ i = Len(results) + 1

\* C5: once a unit's evaluation has raised or a worker crash has lost a unit,
\* generate_data does not return: no sequence of the records that succeeded
\* comes back, and no unit is ever evaluated a second time.
C5_FailureIsFatal ==
    (Entered /\ is_valid) =>
        /\ (\E i \in 1..num_data : UnitFailed(i)) =>
              /\ pc # "returned"
              /\ ret = <<>>
        /\ pc = "raised" => gd_exc # "none" /\ ret = <<>>
        /\ \A i \in 1..num_data : evals[i] <= 1
        /\ pc = "returned" =>
              /\ Len(ret) = num_data
              /\ \A i \in 1..num_data : evals[i] = 1

\* C5's case: a unit's record was ready, a worker crash lost another unit,
\* and generate_data raised.
C5_Witness ==
    /\ Entered
    /\ is_valid
    /\ num_workers > 1
    /\ pc = "raised"
    /\ gd_exc = "BrokenProcessPool"
    /\ \E i \in 1..num_data : futures[i].st = "done" /\ futures[i].exc = "none"
    /\ \E i \in 1..num_data : UnitFailed(i)

\* C5's other case: an evaluation raised in a worker, and in the caller.
EvaluationRaisedInWorker ==
    Entered /\ num_workers > 1 /\ pc = "raised" /\ gd_exc = "IndexError"
EvaluationRaisedInCaller ==
    Entered /\ num_workers <= 1 /\ pc = "raised" /\ gd_exc = "IndexError"

(***************************************************************************)
(* The file writer's properties                                            *)
(***************************************************************************)
\* save_results_to_files has written N = F * L records, F >= 1, L >= 1,
\* under one of the three prefix strategies, no write failed, and the files
\* were read back.
SavedAndRead ==
    /\ sv_pc = "done"
    /\ read_back.done
    /\ file_count >= 1
    /\ data_lines >= 1
    /\ Len(sv_results) = file_count * data_lines
    /\ prefix \in {"count", "random", "uuid"}
    /\ \A j \in 1..Len(attempts) : attempts[j].ok

\* C10: after N = F * L records are written to F files of L records each,
\* under any prefix strategy, reading the written files' lines back in the
\* order they were written and decoding each as JSON gives exactly the N
\* records in their order.
C10_RoundTrip ==
    SavedAndRead =>
        /\ read_back.exc = "none"
        /\ read_back.records = sv_results

\* No two turns of the loop were given the same filename.
NamesDistinct ==
    \A j, k \in 1..Len(attempts) :
        j # k => attempts[j].name # attempts[k].name

\* The round trip of C10 for the runs whose filenames differ from one
\* another, as they always do under the prefix count.
RoundTripWithDistinctNames ==
    (SavedAndRead /\ NamesDistinct) =>
        /\ read_back.exc = "none"
        /\ read_back.records = sv_results

\* The filenames of the prefix count differ from one another.
CountNamesDistinct == prefix = "count" => NamesDistinct

\* Several files with escaped characters in them were written and read back.
SeveralFilesRead ==
    /\ SavedAndRead
    /\ NamesDistinct
    /\ file_count = MaxFiles
    /\ read_back.records = sv_results
    /\ \E j \in 1..Len(sv_results) : sv_results[j].v[2][2].v = <<"x", "\"", "y", "\\", "z", "\n">>

\* The number of chunks of data_lines records the results make.
NumChunks == (Len(sv_results) + data_lines - 1) \div data_lines

\* The turn j of the loop is the last one that wrote a file of its name.
LastWriter(j) ==
    /\ attempts[j].ok
    /\ \A k \in (j + 1)..Len(attempts) : attempts[k].name # attempts[j].name

\* What the k-th chunk writes.
TextOfChunk(k) ==
    ChunkText(SubSeq(sv_results, (k - 1) * data_lines + 1,
                     Min(k * data_lines, Len(sv_results))),
              Min(k * data_lines, Len(sv_results)) - (k - 1) * data_lines)

\* The turns of the loop took the chunks in order, chunk k with the k-th
\* generated filename, and each file holds the chunk of its last writer and
\* nothing else; min(chunks, files) chunks were taken, the chunks after them
\* dropped with a warning, and no more than files files exist.
ChunksWentToFiles(files) ==
    /\ Len(attempts) = Min(NumChunks, files)
    /\ names_given = Len(attempts)
    /\ \A k \in 1..Len(attempts) :
          /\ attempts[k].i = (k - 1) * data_lines
          /\ Yield(attempts[k].name) \in
                 _generate_filenames(file_name, prefix, file_count, k - 1)
          /\ LastWriter(k) => TextOf(disk, attempts[k].name) = TextOfChunk(k)
    /\ Cardinality(disk) <= files
    /\ NumChunks > files <=>
           \E j \in 1..Len(sv_log) :
               sv_log[j] = SaveLog("warning", "more chunks than file_count")

\* save_results_to_files has returned from its chunk loop under one of the
\* three prefix strategies.
SaveLooped ==
    /\ sv_pc = "done"
    /\ sv_results # <<>>
    /\ data_lines >= 1
    /\ prefix \in {"count", "random", "uuid"}

\* C11 as stated: the records are split into consecutive chunks of
\* data_lines records, chunk k goes to the k-th generated filename; with more
\* chunks than file_count exactly the first file_count chunks are written,
\* the trailing ones are dropped and not put into earlier files, and at most
\* file_count files are written, whatever file_count is.
C11_ChunksToFilesAnyCount == SaveLooped => ChunksWentToFiles(file_count)

\* C11 for file_count >= 1: the records are split into consecutive chunks of
\* data_lines records, chunk k goes to the k-th generated filename; with more
\* chunks than file_count exactly the first file_count chunks are written,
\* the trailing ones are dropped and not put into earlier files, and at most
\* file_count files are written.
C11_ChunksToFiles ==
    (SaveLooped /\ file_count >= 1) => ChunksWentToFiles(file_count)

\* C11's case: more chunks than files, two files written whole, the third
\* chunk dropped.
C11_Witness ==
    /\ SaveLooped
    /\ file_count = 2
    /\ data_lines = 1
    /\ Len(sv_results) = 3
    /\ Len(attempts) = 2
    /\ attempts[1].ok /\ attempts[2].ok
    /\ attempts[1].name # attempts[2].name

\* file_count = 0 writes one file all the same.
ZeroFilesWritesOne ==
    (SaveLooped /\ file_count = 0) => ChunksWentToFiles(1)

\* The number of filenames the generator has for the loop.
NamesAvailable == IF file_count <= 1 THEN 1 ELSE file_count

PartialFileLeft ==
    /\ SaveLooped
    /\ Len(attempts) >= 2
    /\ ~attempts[1].ok
    /\ \E f \in disk : f.name = attempts[1].name /\ f.text # <<>>
                       /\ f.text # TextOfChunk(1)

RECURSIVE Drained(_, _, _, _, _)
\* list(_generate_filenames(base_name, prefix, count)) from the k-th next()
\* on, after the names acc: every list the generator can give.
Drained(base_name, pre, count, k, acc) ==
    UNION {IF y.stop THEN {acc}
           ELSE Drained(base_name, pre, count, k + 1, Append(acc, y.name))
           : y \in _generate_filenames(base_name, pre, count, k)}

\* Every list of names the generator of this call can give.
AllNames == Drained(file_name, prefix, file_count, 0, <<>>)

\* The names the loop has taken so far begin one of the generator's lists.
NamesTakenFrom(seq) ==
    /\ Len(attempts) <= Len(seq)
    /\ \A k \in 1..Len(attempts) : attempts[k].name = seq[k]

\* The list seq has count names: one plain name for count = 1, and under the
\* prefix count the names _1 .. _count in increasing order for count > 1.
NamesAsCounted(seq) ==
    /\ Len(seq) = file_count
    /\ file_count = 1 => seq = <<JsonlName(file_name, <<>>)>>
    /\ (file_count > 1 /\ prefix = "count") =>
           \A i \in 1..Len(seq) :
               seq[i] = JsonlName(file_name, <<"_">> \o IntText(i))

\* C14 as stated: for every count and each of the three prefix strategies the
\* generator yields exactly count filenames: '<base>.jsonl' for count = 1,
\* and '<base>_1.jsonl' .. '<base>_<count>.jsonl' in order for count > 1
\* under the prefix count.
C14_CountNamesAnyCount ==
    (prefix \in {"count", "random", "uuid"} /\ names_given >= 1) =>
        /\ \A seq \in AllNames : NamesAsCounted(seq)
        /\ \E seq \in AllNames : NamesTakenFrom(seq)

\* C14 for count >= 1: under each of the three prefix strategies the
\* generator yields exactly count filenames: '<base>.jsonl' for count = 1,
\* and '<base>_1.jsonl' .. '<base>_<count>.jsonl' in order for count > 1
\* under the prefix count.
C14_CountNames ==
    (prefix \in {"count", "random", "uuid"} /\ file_count >= 1
     /\ names_given >= 1) =>
        /\ \A seq \in AllNames : NamesAsCounted(seq)
        /\ \E seq \in AllNames : NamesTakenFrom(seq)

\* C14's case: the loop has taken every name of a generator asked for
\* MaxFiles names under the prefix count.
C14_Witness ==
    /\ prefix = "count"
    /\ file_count = MaxFiles
    /\ names_given = file_count
    /\ attempts[file_count].name = JsonlName(file_name, <<"_">> \o IntText(MaxFiles))

\* One name was asked for under the prefix uuid and the plain name taken.
PlainNameTaken ==
    /\ prefix = "uuid"
    /\ file_count = 1
    /\ names_given = 1
    /\ attempts[1].name = JsonlName(file_name, <<>>)

\* A count of zero yields the plain name all the same.
ZeroCountYieldsPlainName ==
    file_count = 0 => AllNames = {<<JsonlName(file_name, <<>>)>>}


(***************************************************************************)
(* main's properties                                                       *)
(***************************************************************************)
\* main has called sys.exit or an exception has ended it.
Exited == main_pc = "exited"

\* The loaded schema fails compilation: DataGenerator(data_schema) is not
\* valid, or its constructor raises.
CompilationFails(r) == r.exc # "none" \/ ~r.ret

\* One of the claim's validation failures holds of the arguments: a negative
\* file count, a negative worker count, a save path that is no directory, a
\* schema that cannot be loaded (main treats a schema that loads as a falsy
\* value the same way), a loaded schema that fails compilation.
ValidationFails ==
    \/ file_count < 0
    \/ args_workers < 0
    \/ validate_save_path(args_path) = "none"
    \/ Falsy(load_data_schema(args_schema))
    \/ CompilationFails(_parse_and_compile_schema(load_data_schema(args_schema)))

\* generate_data was not entered and the writer wrote nothing.
NoRecordsNoFiles ==
    /\ pc = "idle"
    /\ NothingEvaluated
    /\ printed = <<>>
    /\ sv_pc = "idle"
    /\ attempts = <<>>

\* C13: main exits with status 1 when the file count or the worker count is
\* negative, the save path is invalid, the schema cannot be loaded or the
\* loaded schema fails compilation, and has then generated no record and
\* written no file; in every other case, no worker process having been
\* lost, it exits with status 0.
C13_ExitStatus ==
    (Exited /\ NoWorkerDied) =>
        IF ValidationFails
        THEN exit_status = 1 /\ NoRecordsNoFiles
        ELSE exit_status = 0

\* The half of C13 about the failures: each validation failure exits with 1
\* before any record is generated or any file written.
ValidationFailureExitsOne ==
    (Exited /\ ValidationFails) => (exit_status = 1 /\ NoRecordsNoFiles)

\* The other half holds of every run whose generation does not raise: it
\* exits with 0, also when a write failed.
ExitsZeroUnlessGenerationRaises ==
    (Exited /\ ~ValidationFails /\ pc # "raised") => exit_status = 0

\* Each validation failure is met by a run that has exited.
NegativeFileCountExited == Exited /\ file_count < 0
NegativeWorkersExited == Exited /\ file_count >= 0 /\ args_workers < 0
InvalidPathExited ==
    /\ Exited
    /\ file_count >= 0
    /\ args_workers >= 0
    /\ validate_save_path(args_path) = "none"
SchemaNotLoadedExited ==
    /\ Exited
    /\ file_count >= 0
    /\ args_workers >= 0
    /\ validate_save_path(args_path) = "dir"
    /\ Falsy(load_data_schema(args_schema))
CompilationFailedExited ==
    /\ Exited
    /\ is_valid = FALSE
    /\ generator = "ready"
    /\ exit_status = 1
CompilerRaisedExited == Exited /\ ctor_exc # "none"

\* The console path and the file path both end with status 0.
PrintedToConsole ==
    Exited /\ exit_status = 0 /\ file_count = 0 /\ Len(printed) = MaxLines
FilesSaved ==
    Exited /\ exit_status = 0 /\ file_count = MaxMainFiles /\ saved_count = MaxMainFiles

\* A run none of whose validations failed and that lost no worker exits
\* with 1: the schema {"a": "int:[]"} compiles and its rule raises.
ValidRunExitsOne ==
    Exited /\ ~ValidationFails /\ NoWorkerDied /\ exit_status = 1


\* The names of the files of a directory.
NamesIn(dir) == {f.name : f \in dir}

\* The files the save directory held before the run whose names it holds no
\* more.
Deleted == {f \in dir_before : f.name \notin NamesIn(disk)}

\* C15: in every run of main that ends with exit status 1, a loaded schema
\* that fails compilation included, no file of the save directory has been
\* deleted.
C15_FailedRunDeletesNothing ==
    (Exited /\ exit_status = 1) => Deleted = {}

\* The checks main makes before the clear-path step do precede it: a run
\* that stops at the file count, the worker count, the save path or the
\* loading of the schema leaves the directory as it was.
ArgumentFailureDeletesNothing ==
    (/\ Exited
     /\ \/ file_count < 0
        \/ args_workers < 0
        \/ validate_save_path(args_path) = "none"
        \/ Falsy(load_data_schema(args_schema))) => disk = dir_before

\* Nothing is deleted unless clear_path is set and file_count > 0, and
\* only files the pattern f"{file_name}*.json" matches are.
OnlyClearPathDeletes ==
    /\ (~clear_path \/ file_count <= 0) => Deleted = {}
    /\ \A f \in Deleted : GlobMatches(f.name, file_name)

\* A run has exited with 1 because the loaded schema failed compilation,
\* after it deleted a file of the directory.
DeletedThenCompilationFailed ==
    /\ Exited
    /\ exit_status = 1
    /\ generator = "ready"
    /\ ~is_valid
    /\ Deleted # {}

\* The name is one _generate_filenames gives for the base name: the plain
\* '<base>.jsonl' or a '<base>_<suffix>.jsonl'.
OutputNameOf(name, base_name) ==
    /\ Len(name) >= Len(base_name) + 6
    /\ SubSeq(name, 1, Len(base_name)) = base_name
    /\ SubSeq(name, Len(name) - 5, Len(name)) = JsonlName(<<>>, <<>>)
    /\ Len(name) > Len(base_name) + 6 => name[Len(base_name) + 1] = "_"

\* The run has written the file of this name.
WrittenByRun(name) ==
    \E i \in 1..Len(attempts) : attempts[i].name = name /\ attempts[i].ok

\* The output files of an earlier run with the base name that the directory
\* still holds and the run has not written anew.
StaleOutputs ==
    {f \in dir_before : /\ OutputNameOf(f.name, file_name)
                        /\ f.name \in NamesIn(disk)
                        /\ ~WrittenByRun(f.name)}

\* The half of C16 about the other files, which holds in every state of
\* every run: the files whose names do not start with the base name are as
\* they were.
OtherFilesUntouched ==
    \A f \in dir_before :
        (\/ Len(f.name) < Len(file_name)
         \/ SubSeq(f.name, 1, Len(file_name)) # file_name) => f \in disk

\* C16: after a run of main with clear_path set and file_count > 0 that
\* exits with 0, the save directory holds no stale output file of an earlier
\* run with the same base name, and the files that do not match the base
\* name are untouched.
C16_NoStaleOutput ==
    (Exited /\ exit_status = 0 /\ clear_path /\ file_count > 0) =>
        (StaleOutputs = {} /\ OtherFilesUntouched)

\* A run with clear_path set has written its two files and exited with 0,
\* and the earlier run's out.jsonl is still in the directory.
StaleOutputLeft ==
    /\ Exited
    /\ exit_status = 0
    /\ clear_path
    /\ file_count = MaxMainFiles
    /\ saved_count = MaxMainFiles
    /\ StaleOutputs # {}

=============================================================================
